---------------------------- MODULE Spec2Model ----------------------------
(***************************************************************************)
(* A model of ctsha (src/ctsha.hpp): compile-time SHA-1 / SHA-2 digests    *)
(* with every constant derived from prime numbers and their roots.         *)
(*                                                                         *)
(* Representation.                                                         *)
(*   - A byte (std::byte) is an integer in 0..255.                         *)
(*   - A word (std::uint32_t, std::uint64_t) is its value written in base  *)
(*     256: a tuple of sizeof(word_t) bytes, least significant first (byte *)
(*     j of the tuple has weight 256^(j-1)).  This is the value of the     *)
(*     integer, not its layout in memory, so it is the same on every host; *)
(*     all word arithmetic is modulo 2^W as in the code.                   *)
(*   - An unbounded natural number (the significand arithmetic behind      *)
(*     __float128) is a tuple of limbs in base 2^15, least significant     *)
(*     limb first, without leading zero limbs.                             *)
(*   - A __float128 is a record [neg, m, e] of value (-1)^neg * m * 2^e    *)
(*     with m = 0 or 2^112 <= m < 2^113 (113 significant bits, IEEE        *)
(*     binary128); every operation rounds to nearest, ties to even.        *)
(***************************************************************************)
EXTENDS Integers, Sequences, FiniteSets, TLC

(***************************************************************************)
(* Natural numbers of any size (limbs in base 2^15).                       *)
(***************************************************************************)

\* TLC computes the argument of an operator when it is first used.  Force(v) is
\* TRUE for every v and uses it: a loop written as a recursive operator tests it
\* on the values it carries, so that each round is computed before the next starts
\* (the same holds for the test Len(acc) + 1 # i of the loops over limbs, which
\* is never true: acc always holds the limbs below i).
Force(v) == v = v

LimbBits == 10 + 5
LimbBase == 2 ^ LimbBits

Limb(a, i) == IF 1 <= i /\ i <= Len(a) THEN a[i] ELSE 0

RECURSIVE N_TrimTo(_, _)
N_TrimTo(a, n) ==
    IF n = 0 THEN << >>
    ELSE IF a[n] # 0 THEN SubSeq(a, 1, n)
    ELSE N_TrimTo(a, n - 1)

\* a without its leading zero limbs
N_Trim(a) == N_TrimTo(a, Len(a))

\* 0 <= n < 2^31
N_FromInt(n) ==
    N_Trim(<< n % LimbBase, (n \div LimbBase) % LimbBase, n \div (LimbBase * LimbBase) >>)

N_IsZero(a) == Len(a) = 0

RECURSIVE N_AddFrom(_, _, _, _, _)
N_AddFrom(a, b, i, carry, acc) ==
    CASE Len(acc) + 1 # i -> acc
      [] i > Len(a) /\ i > Len(b) -> IF carry = 0 THEN acc ELSE Append(acc, carry)
      [] OTHER -> N_AddFrom(a, b, i + 1, (Limb(a, i) + Limb(b, i) + carry) \div LimbBase,
                            Append(acc, (Limb(a, i) + Limb(b, i) + carry) % LimbBase))

N_Add(a, b) == N_AddFrom(a, b, 1, 0, << >>)

N_Succ(a) ==
    IF Len(a) > 0 /\ a[1] < LimbBase - 1 THEN [a EXCEPT ![1] = @ + 1] ELSE N_Add(a, << 1 >>)

\* a - b for a >= b
RECURSIVE N_SubFrom(_, _, _, _, _)
N_SubFrom(a, b, i, borrow, acc) ==
    CASE Len(acc) + 1 # i -> acc
      [] i > Len(a) -> N_Trim(acc)
      [] OTHER -> N_SubFrom(a, b, i + 1, IF a[i] - Limb(b, i) - borrow < 0 THEN 1 ELSE 0,
                            Append(acc, (a[i] - Limb(b, i) - borrow + LimbBase) % LimbBase))

N_Sub(a, b) == N_SubFrom(a, b, 1, 0, << >>)

\* -1, 0, 1 as a < b, a = b, a > b
RECURSIVE N_CmpFrom(_, _, _)
N_CmpFrom(a, b, i) ==
    IF i = 0 THEN 0
    ELSE IF a[i] < b[i] THEN -1
    ELSE IF a[i] > b[i] THEN 1
    ELSE N_CmpFrom(a, b, i - 1)

N_Cmp(a, b) ==
    IF Len(a) < Len(b) THEN -1
    ELSE IF Len(a) > Len(b) THEN 1
    ELSE N_CmpFrom(a, b, Len(a))

\* acc + a * d for one limb d, limb i upwards
RECURSIVE N_MulAddFrom(_, _, _, _, _, _)
N_MulAddFrom(a, d, c, i, carry, acc) ==
    CASE Len(acc) + 1 # i -> acc
      [] i > Len(a) /\ i > Len(c) -> IF carry = 0 THEN acc ELSE Append(acc, carry)
      [] OTHER -> N_MulAddFrom(a, d, c, i + 1,
                               (Limb(a, i) * d + Limb(c, i) + carry) \div LimbBase,
                               Append(acc, (Limb(a, i) * d + Limb(c, i) + carry) % LimbBase))

\* a * d for one limb d
N_MulLimb(a, d) == IF d = 0 THEN << >> ELSE N_MulAddFrom(a, d, << >>, 1, 0, << >>)

\* a * b: row i adds a * b[i] * LimbBase^(i-1) to acc, whose limbs below i are final
RECURSIVE N_MulFrom(_, _, _, _)
N_MulFrom(a, b, i, acc) ==
    CASE Force(acc) /\ i > Len(b) -> N_Trim(acc)
      [] OTHER -> N_MulFrom(a, b, i + 1,
                            SubSeq(acc, 1, i - 1)
                              \o N_MulAddFrom(a, b[i], SubSeq(acc, i, Len(acc)), 1, 0, << >>))

N_Mul(a, b) ==
    IF N_IsZero(a) \/ N_IsZero(b) THEN << >>
    ELSE N_MulFrom(a, b, 1, [i \in 1..Len(b) |-> 0])

\* a * 2^s
N_ShiftLeft(a, s) ==
    LET q == s \div LimbBits
        r == s % LimbBits
    IN  IF N_IsZero(a) \/ s = 0 THEN a
        ELSE IF r = 0 THEN [i \in 1..q |-> 0] \o a
        ELSE [i \in 1..q |-> 0]
             \o N_Trim([i \in 1..(Len(a) + 1) |->
                   ((Limb(a, i) * (2 ^ r)) % LimbBase) + (Limb(a, i - 1) \div (2 ^ (LimbBits - r)))])

\* a \div 2^s
N_ShiftRight(a, s) ==
    LET q == s \div LimbBits
        r == s % LimbBits
        n == Len(a) - q
    IN  IF s = 0 THEN a
        ELSE IF n <= 0 THEN << >>
        ELSE IF r = 0 THEN SubSeq(a, q + 1, Len(a))
        ELSE N_Trim([i \in 1..n |->
                 (a[i + q] \div (2 ^ r)) + (Limb(a, i + q + 1) % (2 ^ r)) * (2 ^ (LimbBits - r))])

\* a % 2^s = 0
N_LowBitsZero(a, s) ==
    LET q == s \div LimbBits
        r == s % LimbBits
    IN  /\ \A i \in 1..q : Limb(a, i) = 0
        /\ Limb(a, q + 1) % (2 ^ r) = 0

\* bit i (of weight 2^i) of a
N_Bit(a, i) == (Limb(a, (i \div LimbBits) + 1) \div (2 ^ (i % LimbBits))) % 2

\* the number of significant bits of d, 0 <= d < 2^16
BitLen4(d) == IF d >= 4 THEN (IF d >= 8 THEN 4 ELSE 3) ELSE (IF d >= 2 THEN 2 ELSE d)
BitLen8(d) == IF d >= 16 THEN 4 + BitLen4(d \div 16) ELSE BitLen4(d)
BitLen(d)  == IF d >= 256 THEN 8 + BitLen8(d \div 256) ELSE BitLen8(d)

\* the number of significant bits of a
N_BitLen(a) == IF N_IsZero(a) THEN 0 ELSE (Len(a) - 1) * LimbBits + BitLen(a[Len(a)])

\* [d, r - d * b] for the largest digit d with d * b <= r, counting down from d;
\* p is d * b
RECURSIVE N_FixDigit(_, _, _)
N_FixProduct(r, b, d, p) ==
    IF N_Cmp(p, r) <= 0 THEN [d |-> d, r |-> N_Sub(r, p)] ELSE N_FixDigit(r, b, d - 1)

N_FixDigit(r, b, d) == N_FixProduct(r, b, d, N_MulLimb(b, d))

\* floor(r / b) and r % b, for r < b * LimbBase and a divisor b whose top limb is at
\* least LimbBase / 2: the estimate from the leading limbs is at most 2 too large
N_DivDigit(r, b) ==
    LET n   == Len(b)
        est == (Limb(r, n + 1) * LimbBase + Limb(r, n)) \div b[n]
    IN  N_FixDigit(r, b, IF est >= LimbBase THEN LimbBase - 1 ELSE est)

\* long division, limb i of a downwards; step is the digit and the remainder
\* of the step before, q the digits before that one
RECURSIVE N_DivLimbs(_, _, _, _, _)
N_DivLimbs(a, b, i, q, step) ==
    CASE Force(q) /\ Force(step) /\ i = 0 -> [q |-> N_Trim(<< step.d >> \o q), r |-> step.r]
      [] OTHER -> N_DivLimbs(a, b, i - 1, << step.d >> \o q,
                             N_DivDigit(N_Trim(<< a[i] >> \o step.r), b))

\* [q |-> floor(a / b), r |-> a % b] for b # 0.  Both are first multiplied by 2^s to
\* bring the top limb of b to LimbBase / 2 at least; the top limbs of a that are
\* fewer than those of b make the first remainder.
N_DivResult(res, s) == [q |-> res.q, r |-> N_ShiftRight(res.r, s)]

N_DivHigh(an, bn, high, s) ==
    N_DivResult(N_DivLimbs(an, bn, Len(an) - high, << >>,
                           [d |-> 0, r |-> SubSeq(an, Len(an) - high + 1, Len(an))]), s)

N_DivNormal(an, bn, s) ==
    N_DivHigh(an, bn, IF Len(bn) - 1 < Len(an) THEN Len(bn) - 1 ELSE Len(an), s)

N_DivShift(a, b, s) == N_DivNormal(N_ShiftLeft(a, s), N_ShiftLeft(b, s), s)

N_DivMod(a, b) == N_DivShift(a, b, LimbBits - BitLen(b[Len(b)]))

\* a^n * acc
RECURSIVE N_PowAcc(_, _, _)
N_PowAcc(a, n, acc) ==
    CASE Force(acc) /\ n = 0 -> acc
      [] OTHER -> N_PowAcc(a, n - 1, N_Mul(acc, a))

N_Pow(a, n) == N_PowAcc(a, n, << 1 >>)

\* [z |-> the number of zero limbs at the low end of a, limb i upwards]
RECURSIVE N_LowZeros(_, _)
N_LowZeros(a, i) == IF i > Len(a) \/ a[i] # 0 THEN i - 1 ELSE N_LowZeros(a, i + 1)

(***************************************************************************)
(* Binary floating point, rounded to nearest, ties to even: a value is     *)
(* [neg, m, e] for (-1)^neg * m * 2^e, with m of at most `prec` bits and   *)
(* without zero limbs at its low end.  The exponent range is not modelled: *)
(* every value the library computes lies between 2^-160 and 2^40, far      *)
(* inside the range of binary64 and binary128.                             *)
(***************************************************************************)
Float128Bits == 113
DoubleBits   == 53

F_Zero == [neg |-> FALSE, m |-> << >>, e |-> 0]

\* (-1)^neg * M * 2^e, exactly
F_Strip(neg, M, e, z) ==
    IF N_IsZero(M) THEN F_Zero
    ELSE IF z = 0 THEN [neg |-> neg, m |-> M, e |-> e]
    ELSE [neg |-> neg, m |-> SubSeq(M, z + 1, Len(M)), e |-> e + z * LimbBits]

F_Make(neg, M, e) == F_Strip(neg, M, e, N_LowZeros(M, 1))

\* The nearest value with `prec` significant bits to (-1)^neg * (M + f) * 2^e, where
\* 0 <= f < 1, f # 0 iff sticky, and sticky only if M has more than prec + 1 bits
\* q is M without its s low bits, guard the highest of them, rest whether anything
\* is below the guard
F_RoundUp(q, guard, rest) ==
    IF guard /\ (rest \/ N_Bit(q, 0) = 1) THEN N_Succ(q) ELSE q

F_RoundAt(neg, M, e, sticky, s) ==
    F_Make(neg,
           IF s <= 0 THEN M
           ELSE F_RoundUp(N_ShiftRight(M, s), N_Bit(M, s - 1) = 1,
                          sticky \/ ~N_LowBitsZero(M, s - 1)),
           IF s <= 0 THEN e ELSE e + s)

F_Round(prec, neg, M, e, sticky) == F_RoundAt(neg, M, e, sticky, N_BitLen(M) - prec)

\* the conversion of a non-negative integer to __float128
F_FromNat(n) == F_Round(Float128Bits, FALSE, n, 0, FALSE)
F_FromInt(n) == F_FromNat(N_FromInt(n))

F_Neg(a) == IF N_IsZero(a.m) THEN a ELSE [a EXCEPT !.neg = ~a.neg]

F_MulTo(prec, a, b) ==
    CASE Force(a) /\ Force(b) ->
         F_Round(prec, a.neg # b.neg, N_Mul(a.m, b.m), a.e + b.e, FALSE)

\* a / b for b # 0: the quotient of the significands to prec + 2 bits at least, the
\* remainder as the sticky bit
F_DivRound(prec, a, b, sh, d) ==
    F_Round(prec, a.neg # b.neg, d.q, a.e - b.e - sh, ~N_IsZero(d.r))

F_DivShift(prec, a, b, sh) == F_DivRound(prec, a, b, sh, N_DivMod(N_ShiftLeft(a.m, sh), b.m))

F_DivNeed(prec, a, b, need) == F_DivShift(prec, a, b, IF need > 0 THEN need ELSE 0)

F_DivTo(prec, a, b) ==
    IF Force(b) /\ N_IsZero(a.m) THEN F_Zero
    ELSE F_DivNeed(prec, a, b, prec + 2 + N_BitLen(b.m) - N_BitLen(a.m))

\* a + b: the exact sum of the two values, rounded once
\* am and bm are the significands of a and b at the exponent e, order is N_Cmp(am, bm)
F_AddOrdered(prec, a, b, e, am, bm, order) ==
    F_Round(prec,
            IF a.neg = b.neg \/ order >= 0 THEN a.neg ELSE b.neg,
            IF a.neg = b.neg THEN N_Add(am, bm)
            ELSE IF order >= 0 THEN N_Sub(am, bm) ELSE N_Sub(bm, am),
            e, FALSE)

F_AddAligned(prec, a, b, e, am, bm) == F_AddOrdered(prec, a, b, e, am, bm, N_Cmp(am, bm))

F_AddAt(prec, a, b, e) ==
    F_AddAligned(prec, a, b, e, N_ShiftLeft(a.m, a.e - e), N_ShiftLeft(b.m, b.e - e))

F_AddTo(prec, a, b) ==
    CASE Force(a) /\ Force(b) -> F_AddAt(prec, a, b, IF a.e < b.e THEN a.e ELSE b.e)

F_Mul(a, b) == F_MulTo(Float128Bits, a, b)
F_Div(a, b) == F_DivTo(Float128Bits, a, b)
F_Add(a, b) == F_AddTo(Float128Bits, a, b)
F_Sub(a, b) == F_AddTo(Float128Bits, a, F_Neg(b))

\* a <= b
F_Order(a, b, e) == N_Cmp(N_ShiftLeft(a.m, a.e - e), N_ShiftLeft(b.m, b.e - e))

F_LessEq(a, b) ==
    IF Force(b) /\ N_IsZero(a.m) THEN (N_IsZero(b.m) \/ ~b.neg)
    ELSE IF N_IsZero(b.m) THEN a.neg
    ELSE IF a.neg # b.neg THEN a.neg
    ELSE IF a.neg THEN F_Order(a, b, IF a.e < b.e THEN a.e ELSE b.e) >= 0
    ELSE F_Order(a, b, IF a.e < b.e THEN a.e ELSE b.e) <= 0

\* static_cast<__int128_t>(a) for a >= 0: the integer part
F_Trunc(a) == IF a.e >= 0 THEN N_ShiftLeft(a.m, a.e) ELSE N_ShiftRight(a.m, -a.e)

\* The literal 1.0e-32 is a double: the binary64 value nearest to 10^-32
\* (0x1.9f623d5a8a733p-107), converted to __float128 without change.
Literal_1e_32 ==
    F_DivTo(DoubleBits, F_Make(FALSE, << 1 >>, 0), F_Make(FALSE, N_Pow(<< 10 >>, 32), 0))

(***************************************************************************)
(* Words: tuples of bytes, least significant first.                        *)
(***************************************************************************)
\* A function constructor is evaluated on demand, one element at a time and again at
\* every use; as a sequence joined to the empty one it is a stored tuple, computed once.
Stored(f) == f \o << >>

\* a xor b for a, b in 0..15, at index 16 * a + b + 1, bit by bit
XorNibbles ==
    Stored([k \in 1..256 |->
               LET a == (k - 1) \div 16
                   b == (k - 1) % 16
               IN    ((a + b) % 2)
                   + 2 * (((a \div 2) + (b \div 2)) % 2)
                   + 4 * (((a \div 4) + (b \div 4)) % 2)
                   + 8 * (((a \div 8) + (b \div 8)) % 2)])

\* a xor b for a, b in 0..255, at index 256 * a + b + 1
XorBytes ==
    Stored([k \in 1..65536 |->
               LET a == (k - 1) \div 256
                   b == (k - 1) % 256
               IN  16 * XorNibbles[16 * (a \div 16) + (b \div 16) + 1]
                   + XorNibbles[16 * (a % 16) + (b % 16) + 1]])

\* the bitwise operators on bytes; a + b = (a xor b) + 2 * (a and b)
XorByte(a, b) == XorBytes[256 * a + b + 1]
AndByte(a, b) == (a + b - XorByte(a, b)) \div 2
OrByte(a, b)  == (a + b + XorByte(a, b)) \div 2

\* the number of bits of the word x
Width(x) == 8 * Len(x)

XorW(x, y) == Stored([j \in 1..Len(x) |-> XorByte(x[j], y[j])])
AndW(x, y) == Stored([j \in 1..Len(x) |-> AndByte(x[j], y[j])])
OrW(x, y)  == Stored([j \in 1..Len(x) |-> OrByte(x[j], y[j])])
NotW(x)    == Stored([j \in 1..Len(x) |-> 255 - x[j]])

\* byte j of x, zero outside the word
ByteOf(x, j) == IF 1 <= j /\ j <= Len(x) THEN x[j] ELSE 0

\* x >> n and x << n for 0 <= n <= Width(x): bits leaving the word are lost, zeros enter
ShrW(x, n) ==
    Stored([j \in 1..Len(x) |->
               (ByteOf(x, j + (n \div 8)) \div (2 ^ (n % 8)))
               + ((ByteOf(x, j + (n \div 8) + 1) % (2 ^ (n % 8))) * (2 ^ (8 - (n % 8))))])

ShlW(x, n) ==
    Stored([j \in 1..Len(x) |->
               ((ByteOf(x, j - (n \div 8)) * (2 ^ (n % 8))) % 256)
               + (ByteOf(x, j - (n \div 8) - 1) \div (2 ^ (8 - (n % 8))))])

\* x + y modulo 2^W: byte by byte with the carry, the carry out of the last byte is lost
RECURSIVE AddBytes(_, _, _, _, _)
AddBytes(x, y, j, carry, acc) ==
    IF Len(acc) + 1 # j \/ j > Len(x) THEN acc
    ELSE AddBytes(x, y, j + 1, (x[j] + y[j] + carry) \div 256,
                  Append(acc, (x[j] + y[j] + carry) % 256))

AddW(x, y) == AddBytes(x, y, 1, 0, << >>)

\* data_t{0xff}
LowByte(sizeof) == Stored([j \in 1..sizeof |-> IF j = 1 THEN 255 ELSE 0])

\* the byte (word & (data_t{0xff} << shift)) >> shift
ByteAt(word, shift) == ShrW(AndW(word, ShlW(LowByte(Len(word)), shift)), shift)[1]

\* the word built by word |= byte << (byte_index * 8) for byte_index = 0, 1, ...:
\* byte byte_index of the sequence gets weight 256^byte_index
WordOfBytes(bs) == Stored([j \in 1..Len(bs) |-> bs[j]])

\* a word written as in the source, most significant byte first (0x01234567 is
\* Hex(<<1, 35, 69, 103>>))
Hex(bs) == Stored([j \in 1..Len(bs) |-> bs[Len(bs) + 1 - j]])

\* static_cast<word_t>(n) of a natural number n: its low W bits
NatToWord(n, W) ==
    Stored([j \in 1..(W \div 8) |->
                 N_Bit(n, 8 * (j - 1))          + 2 * N_Bit(n, 8 * (j - 1) + 1)
               + 4 * N_Bit(n, 8 * (j - 1) + 2)  + 8 * N_Bit(n, 8 * (j - 1) + 3)
               + 16 * N_Bit(n, 8 * (j - 1) + 4) + 32 * N_Bit(n, 8 * (j - 1) + 5)
               + 64 * N_Bit(n, 8 * (j - 1) + 6) + 128 * N_Bit(n, 8 * (j - 1) + 7)])

\* the high W bits of the word instead of the low ones
Narrow_high(x, W) == SubSeq(x, Len(x) - (W \div 8) + 1, Len(x))

\* static_cast<std::uint32_t>(x) of a 64-bit word: its low 32 bits
Narrow(x, W) == SubSeq(x, 1, W \div 8)

ZeroWord(W) == Stored([j \in 1..(W \div 8) |-> 0])

(***************************************************************************)
(* Utilities (src/ctsha.hpp, "Utilities").                                 *)
(***************************************************************************)
bits_per_byte == 8

\* bits<data_t>, the type given by its size in bytes
bits(sizeof) == sizeof * bits_per_byte

\* a byte count that rounds down
bytes_rounded_down(nbits) == nbits \div bits_per_byte

\* bytes<bits>
bytes(nbits) == (nbits + (bits_per_byte - 1)) \div bits_per_byte

\* a swap that leaves the bytes where they are
byte_swap_none(value) == value

\* byte_swap: byte byte_index of value becomes byte sizeof - byte_index - 1
byte_swap(value) ==
    Stored([j \in 1..Len(value) |->
               ByteAt(value, (Len(value) - (j - 1) - 1) * bits_per_byte)])

\* std::endian::native of the host the library is compiled on
Endian == {"little", "big"}

big_endian_to_host(native, value) == IF native = "little" THEN byte_swap(value) ELSE value

\* a serialization that writes every word least significant byte first
to_bytes_little_only(endianness, value) ==
    LET sizeof == IF Len(value) = 0 THEN 1 ELSE Len(value[1])
    IN  Stored([k \in 1..(sizeof * Len(value)) |->
                   ByteAt(value[((k - 1) \div sizeof) + 1], ((k - 1) % sizeof) * bits_per_byte)])

\* to_bytes<endianness>(value): value is a tuple of words of the same width
to_bytes(endianness, value) ==
    LET sizeof == IF Len(value) = 0 THEN 1 ELSE Len(value[1])
    IN  Stored([k \in 1..(sizeof * Len(value)) |->
                   LET element    == value[((k - 1) \div sizeof) + 1]
                       byte_index == (k - 1) % sizeof
                       shift      == IF endianness = "little" THEN byte_index * bits_per_byte
                                     ELSE (sizeof - byte_index - 1) * bits_per_byte
                   IN  ByteAt(element, shift)])

\* float128_root: Newton-Raphson on __float128, from the guess 1.0
RECURSIVE float128_exp(_, _, _)
float128_exp(exp, guess, n) ==
    IF n <= 0 THEN exp ELSE float128_exp(F_Mul(exp, guess), guess, n - 1)

\* ((root - 1.0) * guess + value / exp) / root
float128_guess2(value, root, guess, exp) ==
    F_Div(F_Add(F_Mul(F_Sub(F_FromInt(root), F_FromInt(1)), guess), F_Div(value, exp)),
          F_FromInt(root))

\* diff <= limit && diff >= -limit
float128_within(diff, limit) == F_LessEq(diff, limit) /\ F_LessEq(F_Neg(limit), diff)

RECURSIVE float128_root(_, _, _)
float128_root_return(value, root, guess, guess2) ==
    IF Force(guess2) /\ float128_within(F_Sub(guess, guess2), Literal_1e_32) THEN guess
    ELSE float128_root(value, root, guess2)

float128_root(value, root, guess) ==
    float128_root_return(value, root, guess,
                         float128_guess2(value, root, guess,
                                         float128_exp(guess, guess, root - 2)))

RECURSIVE is_prime(_, _)
is_prime(value, divisor) ==
    IF divisor * divisor > value THEN TRUE
    ELSE IF value % divisor = 0 THEN FALSE
    ELSE is_prime(value, divisor + 1)

RECURSIVE next_prime(_)
next_prime(value) == IF is_prime(value, 2) THEN value ELSE next_prime(value + 1)

RECURSIVE prime(_, _)
\* a search that does not step past the prime it has found
RECURSIVE prime_without_step(_, _)
prime_without_step(index, value) ==
    IF Force(value) /\ index = 0 THEN value
    ELSE prime_without_step(index - 1, next_prime(value))

\* prime(index - 1, next_prime(value + 1)), index times: the steps are taken in two
\* halves, the first half first
prime(index, value) ==
    CASE Force(value) /\ index = 0 -> value
      [] index = 1 -> next_prime(value + 1)
      [] OTHER -> prime(index - (index \div 2), prime(index \div 2, value))

(***************************************************************************)
(* Generic SHA functions (src/ctsha.hpp, "Generic SHA Functions").          *)
(***************************************************************************)
\* block_t<word_t>: std::array<word_t, 16>
block_words == 16

rotate_right(num_bits, x) == OrW(ShrW(x, num_bits), ShlW(x, Width(x) - num_bits))
rotate_left(num_bits, x)  == OrW(ShlW(x, num_bits), ShrW(x, Width(x) - num_bits))

choose(x, y, z)   == XorW(AndW(x, y), AndW(NotW(x), z))
majority(x, y, z) == XorW(XorW(AndW(x, y), AndW(x, z)), AndW(y, z))
parity(x, y, z)   == XorW(XorW(x, y), z)

\* the overloads of the four sigma functions are chosen by the width of x
Sigma0(x) ==
    IF Width(x) = 32
    THEN XorW(XorW(rotate_right(2, x), rotate_right(13, x)), rotate_right(22, x))
    ELSE XorW(XorW(rotate_right(28, x), rotate_right(34, x)), rotate_right(39, x))

Sigma1(x) ==
    IF Width(x) = 32
    THEN XorW(XorW(rotate_right(6, x), rotate_right(11, x)), rotate_right(25, x))
    ELSE XorW(XorW(rotate_right(14, x), rotate_right(18, x)), rotate_right(41, x))

sigma0(x) ==
    IF Width(x) = 32
    THEN XorW(XorW(rotate_right(7, x), rotate_right(18, x)), ShrW(x, 3))
    ELSE XorW(XorW(rotate_right(1, x), rotate_right(8, x)), ShrW(x, 7))

sigma1(x) ==
    IF Width(x) = 32
    THEN XorW(XorW(rotate_right(17, x), rotate_right(19, x)), ShrW(x, 10))
    ELSE XorW(XorW(rotate_right(19, x), rotate_right(61, x)), ShrW(x, 6))

\* a minimum that forgets the appended '1' bit
min_bits_without_one(W, original_bytes) == (original_bytes * bits_per_byte) + (2 * W)

\* preprocess_message, in the order of the code: the number of blocks, the padded
\* buffer of bytes, the eight size bytes, the words.
min_bits(W, original_bytes) == (original_bytes * bits_per_byte) + 1 + (2 * W)

blocks_of(W, original_bytes) ==
    (min_bits(W, original_bytes) + (block_words * W - 1)) \div (block_words * W)

\* size bytes written in little endian order
size_bytes_little(original_bytes) ==
    to_bytes("little", << NatToWord(N_MulLimb(N_FromInt(original_bytes), bits_per_byte), 64) >>)

\* static_cast<std::uint64_t>(original_bytes) * bits_per_byte, as 8 bytes in big endian order
size_bytes(original_bytes) ==
    to_bytes("big", << NatToWord(N_MulLimb(N_FromInt(original_bytes), bits_per_byte), 64) >>)

\* the buffer `message` after the three writes: the copy of the original message, the
\* byte 0b10000000 behind it, the size bytes at the end (a later write wins)
padded_bytes(original_message, message_size, size) ==
    Stored([k \in 1..message_size |->
               IF k > message_size - Len(size) THEN size[k - (message_size - Len(size))]
               ELSE IF k = Len(original_message) + 1 THEN 128
               ELSE IF k <= Len(original_message) THEN original_message[k]
               ELSE 0])

padded_message(W, original_message) ==
    padded_bytes(original_message,
                 blocks_of(W, Len(original_message)) * block_words * (W \div bits_per_byte),
                 size_bytes(Len(original_message)))

\* the words of the blocks: word |= byte << (byte_index * bits_per_byte)
message_blocks(sizeof, message) ==
    Stored([b \in 1..(Len(message) \div (block_words * sizeof)) |->
               [j \in 1..block_words |->
                   WordOfBytes(SubSeq(message, ((b - 1) * block_words + (j - 1)) * sizeof + 1,
                                               ((b - 1) * block_words + j) * sizeof))]])

preprocess_message(W, original_message) ==
    message_blocks(W \div bits_per_byte, padded_message(W, original_message))

\* an arithmetic that never wraps
size_t_unbounded(n) == n

\* a result of std::size_t or std::uint64_t arithmetic: the low 64 bits of n
size_t(n) == N_Sub(n, N_ShiftLeft(N_ShiftRight(n, 64), 64))

\* preprocess_message<word_t> for a message of original_bytes bytes, a natural number
\* below 2^64, whatever the bytes are: min_bits, blocks, the size of the buffer `message`
\* and the eight size bytes, in 64-bit arithmetic.  The copy of the original message and
\* the write of the byte 0b10000000 behind it stay inside the buffer only if it is longer
\* than the message; a write outside it is not a constant expression, and the call does
\* not compile.
preprocess_message_sizes(W, original_bytes) ==
    LET bits_of_message == size_t(N_MulLimb(original_bytes, bits_per_byte))
        min_bits_of == size_t(N_Add(bits_of_message, N_FromInt(1 + (2 * W))))
        blocks_needed == N_DivMod(size_t(N_Add(min_bits_of, N_FromInt(block_words * W - 1))),
                                  N_FromInt(block_words * W)).q
        message_size == N_MulLimb(blocks_needed, block_words * (W \div bits_per_byte))
    IN  [ message_size |-> message_size,
          size         |-> to_bytes("big", << NatToWord(bits_of_message, 64) >>),
          outcome      |-> IF N_Cmp(original_bytes, message_size) < 0
                           THEN "preprocessed"
                           ELSE "not a constant expression" ]

(***************************************************************************)
(* Constants (src/ctsha.hpp, "Constants").                                  *)
(***************************************************************************)
\* The arguments float128_root is called with: the square roots of 2, 3, 5, 10 and of
\* the first sixteen primes, the cube roots of the first eighty primes.  The function
\* is pure and the library takes most of these roots several times (each SHA-1
\* constant twenty times), so each root is computed once, into the table `roots`
\* that the derivations below look it up in.
root_arguments(root) ==
    IF root = 2 THEN {2, 3, 5, 10} \cup {prime(index, 2) : index \in 0..15}
    ELSE IF root = 3 THEN {prime(index, 2) : index \in 0..79}
    ELSE {}

known_roots(degrees) ==
    [root \in degrees |->
        [value \in root_arguments(root) |-> float128_root(F_FromInt(value), root, F_FromInt(1))]
            @@ << >>] @@ << >>

\* float128_root(value, root) with the default guess
float128_root_of(roots, value, root) == roots[root][value]

\* one function for all eighty rounds
sha1_functions_parity(index, x, y, z) == parity(x, y, z)

sha1_functions(index, x, y, z) ==
    CASE index \div 20 = 0 -> choose(x, y, z)
      [] index \div 20 = 1 -> parity(x, y, z)
      [] index \div 20 = 2 -> majority(x, y, z)
      [] index \div 20 = 3 -> parity(x, y, z)

sha1_roots == << 2, 3, 5, 10 >>

sha1_constants(roots) ==
    [index \in 0..79 |->
        NatToWord(F_Trunc(F_Mul(float128_root_of(roots, sha1_roots[(index \div 20) + 1], 2),
                                F_FromNat(N_ShiftLeft(<< 1 >>, 30)))), 32)]

sha1_initialization_vector ==
    << byte_swap(Hex(<< 1, 35, 69, 103 >>)),
       byte_swap(Hex(<< 137, 171, 205, 239 >>)),
       byte_swap(Hex(<< 254, 220, 186, 152 >>)),
       byte_swap(Hex(<< 118, 84, 50, 16 >>)),
       byte_swap(Hex(<< 240, 225, 210, 195 >>)) >>

\* a scaling by 2^(W - 1) instead of 2^W
big_fractional_short(fractional, W) ==
    F_Mul(fractional, F_FromNat(N_ShiftLeft(<< 1 >>, W - 1)))

\* sha2_constant<word_t>(prime_number, root), word_t of W bits
big_fractional(fractional, W) == F_Mul(fractional, F_FromNat(N_ShiftLeft(<< 1 >>, W)))

fractional(value) == F_Sub(value, F_FromNat(F_Trunc(value)))

sha2_constant(roots, prime_number, root, W) ==
    NatToWord(F_Trunc(big_fractional(fractional(float128_root_of(roots, prime_number, root)),
                                     W)),
              W)

sha2_32_bit_constants(roots) ==
    [index \in 0..63 |-> sha2_constant(roots, prime(index, 2), 3, 32)]

sha2_64_bit_constants(roots) ==
    [index \in 0..79 |-> sha2_constant(roots, prime(index, 2), 3, 64)]

\* a vector computed at the width of SHA-224: the first 32 bits of each fraction
sha224_initialization_vector_at_32(roots) ==
    [index \in 1..8 |-> sha2_constant(roots, prime(index - 1 + 8, 2), 2, 32)]

\* static_cast<std::uint32_t> of the 64-bit constant: its low 32 bits
sha224_initialization_vector(roots) ==
    [index \in 1..8 |-> Narrow(sha2_constant(roots, prime(index - 1 + 8, 2), 2, 64), 32)]

sha256_initialization_vector(roots) ==
    [index \in 1..8 |-> sha2_constant(roots, prime(index - 1, 2), 2, 32)]

sha384_initialization_vector(roots) ==
    [index \in 1..8 |-> sha2_constant(roots, prime(index - 1 + 8, 2), 2, 64)]

sha512_initialization_vector(roots) ==
    [index \in 1..8 |-> sha2_constant(roots, prime(index - 1, 2), 2, 64)]

\* every constexpr table of the library, as the compiler derives them
derived_constants(roots) ==
    [ sha1_constants               |-> sha1_constants(roots),
      sha1_initialization_vector   |-> sha1_initialization_vector,
      sha2_32_bit_constants        |-> sha2_32_bit_constants(roots),
      sha2_64_bit_constants        |-> sha2_64_bit_constants(roots),
      sha224_initialization_vector |-> sha224_initialization_vector(roots),
      sha256_initialization_vector |-> sha256_initialization_vector(roots),
      sha384_initialization_vector |-> sha384_initialization_vector(roots),
      sha512_initialization_vector |-> sha512_initialization_vector(roots) ]

(***************************************************************************)
(* Top-level hash functions (src/ctsha.hpp, "Top-Level Hash Functions").    *)
(* `tables` is the record of the derived tables, `native` the byte order   *)
(* of the host.                                                            *)
(***************************************************************************)
\* The loops over t run their body for t = from, from + 1, ..., to - 1, each pass on
\* the outcome of the pass before it; the range is split in two halves to keep the
\* evaluation shallow, and what the second half starts from is computed first.

\* one pass of the loop that fills the message schedule of detail::sha1
sha1_schedule_step(native, block, w, t) ==
    [w EXCEPT ![t] = IF t < 16 THEN big_endian_to_host(native, block[t + 1])
                     ELSE rotate_left(1, XorW(XorW(XorW(w[t - 3], w[t - 8]), w[t - 14]), w[t - 16]))]

RECURSIVE sha1_schedule(_, _, _, _, _)
sha1_schedule(native, block, w, from, to) ==
    CASE Force(w) /\ to <= from -> w
      [] to = from + 1 -> sha1_schedule_step(native, block, w, from)
      [] OTHER -> sha1_schedule(native, block, sha1_schedule(native, block, w, from, (from + to) \div 2),
                               (from + to) \div 2, to)

\* "compute the intermediate hash value": *si = *vi + *si
add_state(state, v) == Stored([i \in 1..Len(state) |-> AddW(v[i], state[i])])

\* the assignments in the opposite order: a = T; b = a; c = ROTL30(b); d = c; e = d
sha1_assign_ascending(v, upper_t) ==
    LET a == [v EXCEPT ![1] = upper_t]
        b == [a EXCEPT ![2] = a[1]]
        c == [b EXCEPT ![3] = rotate_left(30, b[2])]
        d == [c EXCEPT ![4] = c[3]]
    IN  [d EXCEPT ![5] = d[4]]

\* one pass of the loop over the working variables of detail::sha1 (a=1, b=2, c=3, d=4, e=5):
\* the five assignments to v, one after the other, each reading v as the ones before left it
sha1_assign(v, upper_t) ==
    LET e == [v EXCEPT ![5] = v[4]]
        d == [e EXCEPT ![4] = e[3]]
        c == [d EXCEPT ![3] = rotate_left(30, d[2])]
        b == [c EXCEPT ![2] = c[1]]
    IN  [b EXCEPT ![1] = upper_t]

sha1_round(tables, w, v, t) ==
    sha1_assign(v, AddW(AddW(AddW(AddW(rotate_left(5, v[1]),
                                       sha1_functions(t, v[2], v[3], v[4])),
                                  v[5]),
                             tables.sha1_constants[t]),
                        w[t]))

RECURSIVE sha1_rounds(_, _, _, _, _)
sha1_rounds(tables, w, v, from, to) ==
    CASE Force(w) /\ Force(v) /\ to <= from -> v
      [] to = from + 1 -> sha1_round(tables, w, v, from)
      [] OTHER -> sha1_rounds(tables, w, sha1_rounds(tables, w, v, from, (from + to) \div 2),
                             (from + to) \div 2, to)

\* the body of the loop over the blocks of detail::sha1
sha1_block(native, tables, state, block) ==
    add_state(state,
              sha1_rounds(tables,
                          sha1_schedule(native, block, [t \in 0..79 |-> ZeroWord(32)], 0, 80),
                          state, 0, 80))

\* a schedule with the two small sigma functions exchanged
sha2_schedule_step_exchanged(native, block, w, t) ==
    [w EXCEPT ![t] = IF t < 16 THEN big_endian_to_host(native, block[t + 1])
                     ELSE AddW(AddW(AddW(sigma0(w[t - 2]), w[t - 7]), sigma1(w[t - 15])), w[t - 16])]

\* one pass of the loop that fills the message schedule of detail::sha2
sha2_schedule_step(native, block, w, t) ==
    [w EXCEPT ![t] = IF t < 16 THEN big_endian_to_host(native, block[t + 1])
                     ELSE AddW(AddW(AddW(sigma1(w[t - 2]), w[t - 7]), sigma0(w[t - 15])), w[t - 16])]

RECURSIVE sha2_schedule(_, _, _, _, _)
sha2_schedule(native, block, w, from, to) ==
    CASE Force(w) /\ to <= from -> w
      [] to = from + 1 -> sha2_schedule_step(native, block, w, from)
      [] OTHER -> sha2_schedule(native, block, sha2_schedule(native, block, w, from, (from + to) \div 2),
                               (from + to) \div 2, to)

\* the assignments in the opposite order: a = t1 + t2; b = a; ...; h = g
sha2_assign_ascending(v, t1, t2) ==
    LET a == [v EXCEPT ![1] = AddW(t1, t2)]
        b == [a EXCEPT ![2] = a[1]]
        c == [b EXCEPT ![3] = b[2]]
        d == [c EXCEPT ![4] = c[3]]
        e == [d EXCEPT ![5] = AddW(d[4], t1)]
        f == [e EXCEPT ![6] = e[5]]
        g == [f EXCEPT ![7] = f[6]]
    IN  [g EXCEPT ![8] = g[7]]

\* one pass of the loop over the working variables of detail::sha2
\* (a=1, b=2, c=3, d=4, e=5, f=6, g=7, h=8): the eight assignments to v, one after the
\* other, each reading v as the ones before left it
sha2_assign(v, t1, t2) ==
    LET h == [v EXCEPT ![8] = v[7]]
        g == [h EXCEPT ![7] = h[6]]
        f == [g EXCEPT ![6] = g[5]]
        e == [f EXCEPT ![5] = AddW(f[4], t1)]
        d == [e EXCEPT ![4] = e[3]]
        c == [d EXCEPT ![3] = d[2]]
        b == [c EXCEPT ![2] = c[1]]
    IN  [b EXCEPT ![1] = AddW(t1, t2)]

sha2_round(constants, w, v, t) ==
    sha2_assign(v,
                AddW(AddW(AddW(AddW(v[8], Sigma1(v[5])), choose(v[5], v[6], v[7])),
                          constants[t]),
                     w[t]),
                AddW(Sigma0(v[1]), majority(v[1], v[2], v[3])))

RECURSIVE sha2_rounds(_, _, _, _, _)
sha2_rounds(constants, w, v, from, to) ==
    CASE Force(w) /\ Force(v) /\ to <= from -> v
      [] to = from + 1 -> sha2_round(constants, w, v, from)
      [] OTHER -> sha2_rounds(constants, w, sha2_rounds(constants, w, v, from, (from + to) \div 2),
                             (from + to) \div 2, to)

\* the body of the loop over the blocks of detail::sha2; constants is the table of
\* num_constants words the call was given
sha2_block(native, constants, state, block) ==
    add_state(state,
              sha2_rounds(constants,
                          sha2_schedule(native, block,
                                        [t \in DOMAIN constants |-> ZeroWord(Width(state[1]))],
                                        0, Cardinality(DOMAIN constants)),
                          state, 0, Cardinality(DOMAIN constants)))

\* a return that forgets the truncation
sha2_digest_full(digest_bits, state) == to_bytes("big", state)

\* a truncation that keeps the last bytes
truncated_digest_tail(digest_bits, sizeof, full_digest) ==
    IF bytes(digest_bits) < sizeof
    THEN SubSeq(full_digest, Len(full_digest) - bytes(digest_bits) + 1, Len(full_digest))
    ELSE full_digest

\* the end of detail::sha2: the digest, truncated if needed
truncated_digest(digest_bits, sizeof, full_digest) ==
    IF bytes(digest_bits) < sizeof THEN SubSeq(full_digest, 1, bytes(digest_bits))
    ELSE full_digest

sha2_digest(digest_bits, state) ==
    truncated_digest(digest_bits, Len(state) * Len(state[1]), to_bytes("big", state))

\* detail::sha2 as a whole
RECURSIVE sha2_blocks(_, _, _, _, _)
sha2_blocks(native, constants, state, preprocessed, i) ==
    IF Force(state) /\ i > Len(preprocessed) THEN state
    ELSE sha2_blocks(native, constants, sha2_block(native, constants, state, preprocessed[i]),
                     preprocessed, i + 1)

detail_sha2(digest_bits, native, message, initialization_vector, constants) ==
    sha2_digest(digest_bits,
                sha2_blocks(native, constants, initialization_vector,
                            preprocess_message(Width(initialization_vector[1]), message), 1))

\* sha512_t_initialization_vector<hash_bits>
sha512_t_requires_iv(hash_bits) == hash_bits # 0 /\ hash_bits # 384

intermediate_iv(tables) ==
    Stored([i \in 1..8 |-> XorW(tables.sha512_initialization_vector[i],
                         Hex(<< 165, 165, 165, 165, 165, 165, 165, 165 >>))])

\* a message with three digits for every hash_bits
sha512_t_message_padded(hash_bits) ==
    << 83, 72, 65, 45, 53, 49, 50, 47 >> \o
    << (hash_bits \div 100) + 48, ((hash_bits % 100) \div 10) + 48, (hash_bits % 10) + 48 >>

\* "SHA-512/" and the decimal digits of hash_bits, one branch for each number of digits
sha512_t_message(hash_bits) ==
    << 83, 72, 65, 45, 53, 49, 50, 47 >> \o
    ( IF hash_bits < 10 THEN << hash_bits + 48 >>
      ELSE IF hash_bits < 100 THEN << (hash_bits \div 10) + 48, (hash_bits % 10) + 48 >>
      ELSE << (hash_bits \div 100) + 48, ((hash_bits % 100) \div 10) + 48, (hash_bits % 10) + 48 >> )

\* the hash result (an array of bytes) as an initialization vector
iv_of_hash_result(native, hash_result) ==
    Stored([iv_index \in 1..8 |->
               big_endian_to_host(native,
                   WordOfBytes(SubSeq(hash_result, (iv_index - 1) * bits_per_byte + 1,
                                                   iv_index * bits_per_byte)))])

sha512_t_initialization_vector(native, tables, hash_bits) ==
    iv_of_hash_result(native,
                      detail_sha2(512, native, sha512_t_message(hash_bits),
                                  intermediate_iv(tables), tables.sha2_64_bit_constants))

(***************************************************************************)
(* The public interface (src/ctsha.hpp, "Public Interface") as a state      *)
(* machine: a call of one of the six functions enters detail::sha1 or       *)
(* detail::sha2, which takes the initialization vector as its state and     *)
(* preprocesses the message; the loop over the blocks runs one block at a   *)
(* step; the return makes the digest.                                       *)
(***************************************************************************)
VARIABLES
    native,       \* std::endian::native of the host
    tables,       \* the constexpr tables of the library
    pc,           \* "idle", "hashing", "returned" or "rejected"
    call,         \* the call in progress or last made: [function, hash_bits, message]
    padded,       \* the buffer `message` of preprocess_message
    blocks,       \* the blocks preprocess_message returned
    block_index,  \* the number of blocks the loop has processed
    state,        \* the hash state
    digest,       \* the bytes the call returned
    remembered,   \* the first call a repeating client completed, with its digest
    evaluated     \* the constant expression evaluated last: [function, argument, result]

vars ==
    << native, tables, pc, call, padded, blocks, block_index, state, digest, remembered,
       evaluated >>

\* The messages and digest sizes the functions are called with.
abc == << 97, 98, 99 >>

Filler(n) == Stored([k \in 1..n |-> (k * 16) % 256])

MessageLengths == {0, 55, 56, 63, 64, 111, 112}

Messages == {abc} \cup {Filler(n) : n \in MessageLengths}

\* sha512_t is called with fewer messages: each call hashes twice
TruncatedMessages == {abc, Filler(0), Filler(112)}

HashBits == {0, 1, 8, 224, 256, 384, 511, 512}

NoCall == [function |-> "none", hash_bits |-> 0, message |-> << >>]

NoEvaluation == [function |-> "none", argument |-> 0, result |-> 0]

Init ==
    /\ tables = derived_constants(known_roots({2, 3}))
    /\ native \in Endian
    /\ pc = "idle"
    /\ call = NoCall
    /\ padded = << >>
    /\ blocks = << >>
    /\ block_index = 0
    /\ state = << >>
    /\ digest = << >>
    /\ remembered = << >>
    /\ evaluated = NoEvaluation

\* a start that keeps a trace of the calls made before: the state does not start from the
\* initialization vector once a different call has returned
Enter_with_history(function, hash_bits, initialization_vector, message) ==
    /\ pc = "idle"
    /\ pc' = "hashing"
    /\ call' = [function |-> function, hash_bits |-> hash_bits, message |-> message]
    /\ padded' = padded_message(Width(initialization_vector[1]), message)
    /\ blocks' = message_blocks(Len(initialization_vector[1]), padded')
    /\ block_index' = 0
    /\ state' = IF remembered # << >> /\ remembered[3]
                THEN [initialization_vector EXCEPT ![1] = NotW(@)]
                ELSE initialization_vector
    /\ digest' = << >>
    /\ UNCHANGED << native, tables, remembered, evaluated >>

\* the start of detail::sha1 and detail::sha2: auto state = initialization_vector, and
\* the range of the loop, preprocess_message<word_t>(message)
Enter(function, hash_bits, initialization_vector, message) ==
    /\ pc = "idle"
    /\ pc' = "hashing"
    /\ call' = [function |-> function, hash_bits |-> hash_bits, message |-> message]
    /\ padded' = padded_message(Width(initialization_vector[1]), message)
    /\ blocks' = message_blocks(Len(initialization_vector[1]), padded')
    /\ block_index' = 0
    /\ state' = initialization_vector
    /\ digest' = << >>
    /\ UNCHANGED << native, tables, remembered, evaluated >>

sha1(message) == Enter("sha1", 160, tables.sha1_initialization_vector, message)

sha224(message) == Enter("sha224", 224, tables.sha224_initialization_vector, message)

sha256(message) == Enter("sha256", 256, tables.sha256_initialization_vector, message)

sha384(message) == Enter("sha384", 384, tables.sha384_initialization_vector, message)

sha512(message) == Enter("sha512", 512, tables.sha512_initialization_vector, message)

\* a requires clause without the upper bound
sha512_t_requires_unbounded(hash_bits) == hash_bits # 0 /\ hash_bits # 384

\* the requires clause of sha512_t
sha512_t_requires(hash_bits) == hash_bits # 0 /\ hash_bits # 384 /\ hash_bits < 512

\* a call whose constraint fails does not compile: nothing is evaluated
sha512_t(hash_bits, message) ==
    IF sha512_t_requires(hash_bits) /\ sha512_t_requires_iv(hash_bits)
    THEN Enter("sha512_t", hash_bits,
               sha512_t_initialization_vector(native, tables, hash_bits), message)
    ELSE /\ pc = "idle"
         /\ pc' = "rejected"
         /\ call' = [function |-> "sha512_t", hash_bits |-> hash_bits, message |-> message]
         /\ padded' = << >>
         /\ blocks' = << >>
         /\ block_index' = 0
         /\ state' = << >>
         /\ digest' = << >>
         /\ UNCHANGED << native, tables, remembered, evaluated >>

\* the table of constants the function passes to detail::sha2
constants_of(function) ==
    IF function \in {"sha224", "sha256"} THEN tables.sha2_32_bit_constants
    ELSE tables.sha2_64_bit_constants

\* a loop that takes the blocks from the last one to the first
Block_reversed ==
    /\ pc = "hashing"
    /\ block_index < Len(blocks)
    /\ state' = IF call.function = "sha1"
                THEN sha1_block(native, tables, state, blocks[Len(blocks) - block_index])
                ELSE sha2_block(native, constants_of(call.function), state,
                                blocks[Len(blocks) - block_index])
    /\ block_index' = block_index + 1
    /\ UNCHANGED << native, tables, pc, call, padded, blocks, digest, remembered, evaluated >>

\* one pass of the loop over the blocks
Block ==
    /\ pc = "hashing"
    /\ block_index < Len(blocks)
    /\ state' = IF call.function = "sha1"
                THEN sha1_block(native, tables, state, blocks[block_index + 1])
                ELSE sha2_block(native, constants_of(call.function), state,
                                blocks[block_index + 1])
    /\ block_index' = block_index + 1
    /\ UNCHANGED << native, tables, pc, call, padded, blocks, digest, remembered, evaluated >>

\* the return of detail::sha1 and detail::sha2; a client that repeats calls (repeating)
\* keeps the first call it completed, its digest, and whether a different call has
\* returned since
Return(repeating) ==
    /\ pc = "hashing"
    /\ block_index = Len(blocks)
    /\ pc' = "returned"
    /\ digest' = IF call.function = "sha1" THEN to_bytes("big", state)
                 ELSE sha2_digest(call.hash_bits, state)
    /\ remembered' = IF ~repeating THEN remembered
                     ELSE IF remembered = << >> THEN << call, digest', FALSE >>
                     ELSE IF call # remembered[1] THEN << remembered[1], remembered[2], TRUE >>
                     ELSE remembered
    /\ UNCHANGED << native, tables, call, padded, blocks, block_index, state, evaluated >>

\* the call is over: its temporaries and its result go out of scope
Leave ==
    /\ pc \in {"returned", "rejected"}
    /\ pc' = "idle"
    /\ call' = NoCall
    /\ padded' = << >>
    /\ blocks' = << >>
    /\ block_index' = 0
    /\ state' = << >>
    /\ digest' = << >>
    /\ UNCHANGED << native, tables, remembered, evaluated >>

Next ==
    \/ \E message \in Messages : sha1(message)
    \/ \E message \in Messages : sha224(message)
    \/ \E message \in Messages : sha256(message)
    \/ \E message \in Messages : sha384(message)
    \/ \E message \in Messages : sha512(message)
    \/ \E hash_bits \in HashBits, message \in TruncatedMessages : sha512_t(hash_bits, message)
    \/ Block
    \/ Return(FALSE)
    \/ Leave

Spec == Init /\ [][Next]_vars

\* A client that hashes the same inputs again and again, with other calls in between
RepeatMessages == {abc, Filler(0)}

RepeatHashBits == {224}

NextRepeat ==
    \/ \E message \in RepeatMessages : sha1(message)
    \/ \E message \in RepeatMessages : sha224(message)
    \/ \E message \in RepeatMessages : sha256(message)
    \/ \E message \in RepeatMessages : sha384(message)
    \/ \E message \in RepeatMessages : sha512(message)
    \/ \E hash_bits \in RepeatHashBits, message \in RepeatMessages : sha512_t(hash_bits, message)
    \/ Block
    \/ Return(TRUE)
    \/ Leave

SpecRepeat == Init /\ [][NextRepeat]_vars

\* The utilities evaluated on their own, as a constant expression such as the
\* operand of a static_assert: one evaluation at a time, of prime(index), of
\* next_prime(value), of the message that sha512_t_initialization_vector<hash_bits>
\* hashes, or of preprocess_message<word_t> for a message of a given size.
MaxIndex == 79

MaxValue == 60

MaxHashBits == 511

\* the sizes 2^61 - MaxOffset, ..., 2^61 + MaxOffset are preprocessed
MaxOffset == 150

Evaluate(function, argument, result) ==
    /\ pc = "idle"
    /\ evaluated.function = "none"
    /\ evaluated' = [function |-> function, argument |-> argument, result |-> result]
    /\ UNCHANGED << native, tables, pc, call, padded, blocks, block_index, state, digest,
                    remembered >>

Evaluate_prime(index) == Evaluate("prime", index, prime(index, 2))

Evaluate_next_prime(value) == Evaluate("next_prime", value, next_prime(value))

\* the message of hash_message in sha512_t_initialization_vector<hash_bits>, for the
\* hash_bits that sha512_t accepts
Evaluate_sha512_t_message(hash_bits) ==
    /\ sha512_t_requires(hash_bits)
    /\ sha512_t_requires_iv(hash_bits)
    /\ Evaluate("sha512_t_message", hash_bits, sha512_t_message(hash_bits))

\* message sizes around 2^61 bytes, where the count of bits reaches 2^64, and small ones
LargeSizes ==
    {N_FromInt(n) : n \in 0..MaxOffset}
      \cup {N_Sub(N_ShiftLeft(<< 1 >>, 61), N_FromInt(k)) : k \in 1..MaxOffset}
      \cup {N_Add(N_ShiftLeft(<< 1 >>, 61), N_FromInt(k)) : k \in 0..MaxOffset}

Evaluate_preprocess_message(W, original_bytes) ==
    Evaluate("preprocess_message", [word_bits |-> W, original_bytes |-> original_bytes],
             preprocess_message_sizes(W, original_bytes))

\* the value of the expression is used and gone
Discard ==
    /\ evaluated.function # "none"
    /\ evaluated' = NoEvaluation
    /\ UNCHANGED << native, tables, pc, call, padded, blocks, block_index, state, digest,
                    remembered >>

NextEvaluate ==
    \/ \E index \in 0..MaxIndex : Evaluate_prime(index)
    \/ \E value \in 0..MaxValue : Evaluate_next_prime(value)
    \/ \E hash_bits \in 0..MaxHashBits : Evaluate_sha512_t_message(hash_bits)
    \/ \E W \in {32, 64}, original_bytes \in LargeSizes :
          Evaluate_preprocess_message(W, original_bytes)
    \/ Discard

SpecEvaluate == Init /\ [][NextEvaluate]_vars

-----------------------------------------------------------------------------
\* Properties

\* a call is under way or has returned: the padded message and its blocks exist
Preprocessed == pc \in {"hashing", "returned"}

\* the largest number of bits for which bytes<bits> is compared with its closed form
MaxBits == 520

\* the largest message size for which the number of blocks is compared with its bound
MaxBytes == 300

\* C1: whenever sha1, sha224, sha256, sha384 or sha512 has returned, the digest has exactly
\* 20, 28, 32, 48 or 64 bytes, whatever the length and the content of the message (the
\* empty message included).
C1_DigestLength ==
    pc = "returned" =>
        /\ call.function = "sha1"   => Len(digest) = 20
        /\ call.function = "sha224" => Len(digest) = 28
        /\ call.function = "sha256" => Len(digest) = 32
        /\ call.function = "sha384" => Len(digest) = 48
        /\ call.function = "sha512" => Len(digest) = 64

\* sha224 of a message of two blocks has returned 28 bytes
C1_Witness ==
    /\ pc = "returned"
    /\ call.function = "sha224"
    /\ Len(call.message) = 63
    /\ Len(blocks) = 2
    /\ Len(digest) = 28

\* C2: a sha512_t call with bits = 0, bits = 384 or bits >= 512 is rejected when it is
\* constructed: no padded message, no block, no state and no digest ever exist for it, and
\* the only thing that follows the rejection is the end of the call.
C2_Rejected ==
    [][ /\ (call'.function = "sha512_t"
              /\ (call'.hash_bits = 0 \/ call'.hash_bits = 384 \/ call'.hash_bits >= 512))
            => (pc' = "rejected" /\ padded' = << >> /\ blocks' = << >>
                   /\ state' = << >> /\ digest' = << >>)
        /\ pc = "rejected" => (pc' = "idle" /\ digest' = << >>) ]_vars

\* a sha512_t call with bits = 384 has been rejected
C2_Witness ==
    /\ pc = "rejected"
    /\ call.function = "sha512_t"
    /\ call.hash_bits = 384
    /\ digest = << >>

\* C3: whenever sha512_t has returned, bits is in 1..511 and is not 384, and the digest has
\* exactly ceil(bits/8) bytes; bytes<b> is (b + 7) div 8, the least number of bytes that
\* hold b bits: bytes<0> = 0, bytes<1..8> = 1, bytes<9..16> = 2, bytes<17> = 3.
C3_TruncatedLength ==
    /\ (pc = "returned" /\ call.function = "sha512_t") =>
          /\ call.hash_bits \in (1..511) \ {384}
          /\ 8 * Len(digest) >= call.hash_bits
          /\ 8 * (Len(digest) - 1) < call.hash_bits
          /\ Len(digest) = (call.hash_bits + 7) \div 8
    /\ \A b \in 0..MaxBits :
          /\ bytes(b) = (b + 7) \div 8
          /\ 8 * bytes(b) >= b
          /\ 8 * bytes(b) < b + 8
    /\ bytes(0) = 0
    /\ \A b \in 1..8 : bytes(b) = 1
    /\ \A b \in 9..16 : bytes(b) = 2
    /\ bytes(17) = 3

\* sha512_t<1> has returned a digest of one byte
C3_Witness ==
    /\ pc = "returned"
    /\ call.function = "sha512_t"
    /\ call.hash_bits = 1
    /\ Len(digest) = 1

\* C4: the padded message P of a message of n bytes starts with the n message bytes, has
\* 0x80 at index n, zero bytes from index n + 1 up to the last 8 bytes, and ends with 8 * n
\* as a 64-bit big-endian integer, for the 32-bit and for the 64-bit algorithms.
C4_Padding ==
    Preprocessed =>
        LET n == Len(call.message)
            L == Len(padded)
        IN  /\ L >= n + 9
            /\ \A k \in 1..n : padded[k] = call.message[k]
            /\ padded[n + 1] = 128
            /\ \A k \in (n + 2)..(L - 8) : padded[k] = 0
            /\ \A k \in (L - 7)..(L - 4) : padded[k] = 0
            /\   (padded[L - 3] * 16777216) + (padded[L - 2] * 65536)
               + (padded[L - 1] * 256) + padded[L]
               = 8 * n

\* sha512 is hashing a message of 112 bytes: the 16-byte length field is in a second block
C4_Witness ==
    /\ pc = "hashing"
    /\ call.function = "sha512"
    /\ Len(call.message) = 112
    /\ Len(padded) = 256
    /\ padded[113] = 128
    /\ padded[255] = 3
    /\ padded[256] = 128

\* k blocks of 16 words of W bits hold n message bytes, the 0x80 byte and the length field
\* of two words
Holds(k, W, n) == k * (2 * W) >= n + 1 + ((2 * W) \div 8)

\* k is the smallest number of blocks, at least 1, that holds the padded message
SmallestBlocks(k, W, n) ==
    /\ k >= 1
    /\ Holds(k, W, n)
    /\ \A j \in 1..(k - 1) : ~Holds(j, W, n)

\* C5: the number of blocks of a message of n bytes is the smallest k >= 1 with
\* k * (2 * W) >= n + 1 + 2 * W / 8 (in bytes); with W = 32 a message of 55 bytes gives one
\* block and messages of 56, 63 and 64 bytes give two; the 0x80 byte is never in the length
\* field of 2 * W / 8 bytes.
C5_Blocks ==
    /\ Preprocessed =>
          LET n == Len(call.message)
              W == Width(state[1])
          IN  /\ W \in {32, 64}
              /\ SmallestBlocks(Len(blocks), W, n)
              /\ \A b \in 1..Len(blocks) : Len(blocks[b]) = 16
              /\ Len(padded) = Len(blocks) * (2 * W)
              /\ padded[n + 1] = 128
              /\ n + 1 <= Len(padded) - ((2 * W) \div 8)
              /\ (W = 32 /\ n = 55) => Len(blocks) = 1
              /\ (W = 32 /\ n \in {56, 63, 64}) => Len(blocks) = 2
    /\ \A n \in 0..MaxBytes, W \in {32, 64} : SmallestBlocks(blocks_of(W, n), W, n)
    /\ blocks_of(32, 55) = 1
    /\ \A n \in {56, 63, 64} : blocks_of(32, n) = 2

\* sha256 is hashing a message of 56 bytes in two blocks
C5_Witness ==
    /\ pc = "hashing"
    /\ call.function = "sha256"
    /\ Len(call.message) = 56
    /\ Len(blocks) = 2
    /\ padded[57] = 128

\* C6: sha1 of the 3-byte message "abc" is a9993e364706816aba3e25717850c26c9cd0d89d.
C6_Sha1Abc ==
    (pc = "returned" /\ call.function = "sha1" /\ call.message = abc) =>
        digest = << 169, 153, 62, 54, 71, 6, 129, 106, 186, 62,
                    37, 113, 120, 80, 194, 108, 156, 208, 216, 157 >>

\* C7: sha256 of the 3-byte message "abc" is
\* ba7816bf8f01cfea414140de5dae2223b00361a396177a9cb410ff61f20015ad.
C7_Sha256Abc ==
    (pc = "returned" /\ call.function = "sha256" /\ call.message = abc) =>
        digest = << 186, 120, 22, 191, 143, 1, 207, 234, 65, 65, 64, 222, 93, 174, 34, 35,
                    176, 3, 97, 163, 150, 23, 122, 156, 180, 16, 255, 97, 242, 0, 21, 173 >>

\* C8: sha1 of the empty message is da39a3ee5e6b4b0d3255bfef95601890afd80709; the empty
\* message is padded to one block whose first byte is 0x80 and whose length field is 0, and
\* the block is compressed from the SHA-1 initialization vector.
C8_Sha1Empty ==
    (call.function = "sha1" /\ call.message = << >>) =>
        /\ Preprocessed =>
              /\ Len(blocks) = 1
              /\ Len(padded) = 64
              /\ padded[1] = 128
              /\ \A k \in 57..64 : padded[k] = 0
        /\ (pc = "hashing" /\ block_index = 0) =>
              state = << << 1, 35, 69, 103 >>, << 137, 171, 205, 239 >>,
                         << 254, 220, 186, 152 >>, << 118, 84, 50, 16 >>,
                         << 240, 225, 210, 195 >> >>
        /\ pc = "returned" =>
              digest = << 218, 57, 163, 238, 94, 107, 75, 13, 50, 85,
                          191, 239, 149, 96, 24, 144, 175, 216, 7, 9 >>

\* C9: sha512_t<224> of the 3-byte message "abc" is
\* 4634270f707b6a54daae7530460842e20e37ed265ceee9a43e8924aa, computed from the
\* initialization vector that the SHA-512 hash of "SHA-512/224" gives.
C9_Sha512_224Abc ==
    (call.function = "sha512_t" /\ call.hash_bits = 224 /\ call.message = abc) =>
        /\ (pc = "hashing" /\ block_index = 0) =>
              state = sha512_t_initialization_vector(native, tables, 224)
        /\ pc = "returned" =>
              digest = << 70, 52, 39, 15, 112, 123, 106, 84, 218, 174, 117, 48, 70, 8,
                          66, 226, 14, 55, 237, 38, 92, 238, 233, 164, 62, 137, 36, 170 >>

Sha2Functions == {"sha224", "sha256", "sha384", "sha512", "sha512_t"}

\* byte k, counted from 1, of the words of s written one after the other, each word most
\* significant byte first (a word is the tuple of its bytes, least significant first)
BigEndianByte(s, k) == s[((k - 1) \div Len(s[1])) + 1][Len(s[1]) - ((k - 1) % Len(s[1]))]

\* C11: whenever detail::sha2 has returned for digest_bits smaller than the width of the
\* state of 8 words, the digest is exactly the first ceil(digest_bits / 8) bytes of the
\* big-endian serialization of the final state: 28 bytes for sha224 and sha512_t<224>, 32
\* for sha512_t<256>, whatever the message, the initialization vector and the constants.
C11_Truncation ==
    (pc = "returned" /\ call.function \in Sha2Functions) =>
        /\ Len(state) = 8
        /\ call.hash_bits < 8 * Width(state[1]) =>
              /\ 8 * Len(digest) >= call.hash_bits
              /\ 8 * Len(digest) < call.hash_bits + 8
              /\ Len(digest) <= 8 * Len(state[1])
              /\ \A k \in 1..Len(digest) : digest[k] = BigEndianByte(state, k)
        /\ call.function = "sha224" => (Width(state[1]) = 32 /\ Len(digest) = 28)
        /\ (call.function = "sha512_t" /\ call.hash_bits = 224) =>
              (Width(state[1]) = 64 /\ Len(digest) = 28)
        /\ (call.function = "sha512_t" /\ call.hash_bits = 256) =>
              (Width(state[1]) = 64 /\ Len(digest) = 32)

\* sha512_t<256> has returned the first 32 of the 64 bytes of its state
C11_Witness ==
    /\ pc = "returned"
    /\ call.function = "sha512_t"
    /\ call.hash_bits = 256
    /\ Len(state) = 8
    /\ Len(state[1]) = 8
    /\ Len(digest) = 32
    /\ digest[32] = state[4][1]

\* C12: the digest is the big-endian serialization of the final state: byte i * (W / 8) + j
\* of the untruncated output is the byte of bits W - 8 * (j + 1) to W - 8 * j of word i of
\* the state; to_bytes<big> of the 16-bit words 0x0123, 0x4567 is 01 23 45 67 and
\* to_bytes<little> of them is 23 01 67 45.
C12_BigEndian ==
    /\ pc = "returned" =>
          LET sizeof == Len(state[1])
              output == to_bytes("big", state)
          IN  /\ Len(output) = Len(state) * sizeof
              /\ \A i \in 0..(Len(state) - 1), j \in 0..(sizeof - 1) :
                    output[i * sizeof + j + 1] = state[i + 1][sizeof - j]
              /\ Len(digest) <= Len(output)
              /\ \A k \in 1..Len(digest) : digest[k] = output[k]
              /\ call.function \in {"sha1", "sha256", "sha512"} => digest = output
    /\ to_bytes("big", << Hex(<< 1, 35 >>), Hex(<< 69, 103 >>) >>) = << 1, 35, 69, 103 >>
    /\ to_bytes("little", << Hex(<< 1, 35 >>), Hex(<< 69, 103 >>) >>) = << 35, 1, 103, 69 >>

\* sha1 has returned the 20 bytes of its five words, the most significant byte of the first
\* word first
C12_Witness ==
    /\ pc = "returned"
    /\ call.function = "sha1"
    /\ Len(digest) = 20
    /\ digest[1] = state[1][4]
    /\ digest[20] = state[5][1]

\* n is a prime number
IsPrimeNumber(n) == n >= 2 /\ \A d \in 2..(n - 1) : n % d # 0

\* C13: prime(index) is the index-th prime number, counted from zero: for every index in
\* 0..79 the value is a prime and exactly index primes are smaller than it; prime(0), ...,
\* prime(5) are 2, 3, 5, 7, 11, 13.
C13_Prime ==
    evaluated.function = "prime" =>
        /\ IsPrimeNumber(evaluated.result)
        /\ Cardinality({p \in 0..(evaluated.result - 1) : IsPrimeNumber(p)}) = evaluated.argument
        /\ evaluated.argument \in 0..5 =>
              evaluated.result = << 2, 3, 5, 7, 11, 13 >>[evaluated.argument + 1]

\* prime(79) has been evaluated: the eightieth prime is 409
C13_Witness ==
    /\ evaluated.function = "prime"
    /\ evaluated.argument = 79
    /\ evaluated.result = 409

\* C14: next_prime(value) is the smallest prime number that is at least value, for every
\* value from 0 on; for 0 and for 1 it is 2; it is never a number that is not prime.
C14_NextPrime ==
    evaluated.function = "next_prime" =>
        /\ IsPrimeNumber(evaluated.result)
        /\ evaluated.result >= evaluated.argument
        /\ \A p \in evaluated.argument..(evaluated.result - 1) : ~IsPrimeNumber(p)
        /\ evaluated.argument \in {0, 1} => evaluated.result = 2

\* the natural number that bytes j, j + 1, ... of a word stand for: so_far stands for the
\* bytes above byte i
RECURSIVE WordNatFrom(_, _, _, _)
WordNatFrom(word, i, j, so_far) ==
    CASE Force(so_far) /\ i < j -> so_far
      [] OTHER -> WordNatFrom(word, i - 1, j, N_Add(N_ShiftLeft(so_far, 8), N_FromInt(word[i])))

WordNat(word, j) == WordNatFrom(word, Len(word), j, << >>)

\* floor of the root-th root of a small number p
RootFloor(p, root) == CHOOSE c \in 0..p : c ^ root <= p /\ p < (c + 1) ^ root

\* x^root <= p * 2^(root * W) < (x + 1)^root: x is the root-th root of p with W bits
\* after the binary point, rounded down
IsRootTo(x, p, root, W) ==
    /\ N_Cmp(N_Pow(x, root), N_ShiftLeft(N_FromInt(p), root * W)) <= 0
    /\ N_Cmp(N_ShiftLeft(N_FromInt(p), root * W), N_Pow(N_Succ(x), root)) < 0

\* word holds the first W bits of the fractional part of the root-th root of p
IsRootBits(word, p, root) ==
    IsRootTo(N_Add(N_ShiftLeft(N_FromInt(RootFloor(p, root)), Width(word)), WordNat(word, 1)),
             p, root, Width(word))

\* C15: for every index in 0..63 the 32-bit round constant of SHA-2 is the first 32 bits
\* of the fractional part of the cube root of prime(index): the K with
\* (c * 2^32 + K)^3 <= prime(index) * 2^96 < (c * 2^32 + K + 1)^3, c the floor of the cube
\* root; constant 0 is 0x428a2f98 and constant 63 is 0xc67178f2.
C15_RoundConstants ==
    /\ DOMAIN tables.sha2_32_bit_constants = 0..63
    /\ \A index \in 0..63 :
          /\ Width(tables.sha2_32_bit_constants[index]) = 32
          /\ IsRootBits(tables.sha2_32_bit_constants[index], prime(index, 2), 3)
    /\ tables.sha2_32_bit_constants[0] = Hex(<< 66, 138, 47, 152 >>)
    /\ tables.sha2_32_bit_constants[63] = Hex(<< 198, 113, 120, 242 >>)

\* sha256 has run the 64 rounds of a block with the derived constants
C15_Witness ==
    /\ pc = "hashing"
    /\ call.function = "sha256"
    /\ block_index = 1
    /\ tables.sha2_32_bit_constants[0] = Hex(<< 66, 138, 47, 152 >>)
    /\ IsRootBits(tables.sha2_32_bit_constants[63], 311, 3)

\* C16, as stated: word i of the initialization vector of SHA-224 is the first 32 bits of
\* the fractional part of the square root of prime(i + 8), for every i in 0..7.
C16_FirstBits ==
    \A i \in 0..7 : IsRootBits(tables.sha224_initialization_vector[i + 1], prime(i + 8, 2), 2)

\* C16: word i of the initialization vector of SHA-224 is the low 32 bits of the first 64
\* bits of the fractional part of the square root of prime(i + 8), for every i in 0..7
\* (bits 33 to 64 of the fraction, the low half of word i of the initialization vector of
\* SHA-384): c1059ed8, 367cd507, 3070dd17, f70e5939, ffc00b31, 68581511, 64f98fa7, befa4fa4.
C16_LowBits ==
    /\ \A i \in 0..7 :
          /\ Width(tables.sha224_initialization_vector[i + 1]) = 32
          /\ Width(tables.sha384_initialization_vector[i + 1]) = 64
          /\ IsRootBits(tables.sha384_initialization_vector[i + 1], prime(i + 8, 2), 2)
          /\ \A j \in 1..4 : tables.sha224_initialization_vector[i + 1][j]
                               = tables.sha384_initialization_vector[i + 1][j]
    /\ tables.sha224_initialization_vector
         = << Hex(<< 193, 5, 158, 216 >>), Hex(<< 54, 124, 213, 7 >>),
              Hex(<< 48, 112, 221, 23 >>), Hex(<< 247, 14, 89, 57 >>),
              Hex(<< 255, 192, 11, 49 >>), Hex(<< 104, 88, 21, 17 >>),
              Hex(<< 100, 249, 143, 167 >>), Hex(<< 190, 250, 79, 164 >>) >>

\* sha224 starts from the vector: its first word is c1059ed8, the low half of the first
\* word cbbb9d5dc1059ed8 of the vector of SHA-384
C16_Witness ==
    /\ pc = "hashing"
    /\ call.function = "sha224"
    /\ block_index = 0
    /\ state = tables.sha224_initialization_vector
    /\ state[1] = Hex(<< 193, 5, 158, 216 >>)
    /\ tables.sha384_initialization_vector[1] = Hex(<< 203, 187, 157, 93, 193, 5, 158, 216 >>)

\* the initial hash value of SHA-512/224 in FIPS 180-4, section 5.3.6.1
Fips_sha512_224_vector ==
    << Hex(<< 140, 61, 55, 200, 25, 84, 77, 162 >>),
       Hex(<< 115, 225, 153, 102, 137, 220, 212, 214 >>),
       Hex(<< 29, 250, 183, 174, 50, 255, 156, 130 >>),
       Hex(<< 103, 157, 213, 20, 88, 47, 159, 207 >>),
       Hex(<< 15, 109, 43, 105, 123, 212, 77, 168 >>),
       Hex(<< 119, 227, 111, 115, 4, 196, 137, 66 >>),
       Hex(<< 63, 157, 133, 168, 106, 29, 54, 200 >>),
       Hex(<< 17, 18, 230, 173, 145, 214, 146, 161 >>) >>

\* the initial hash value of SHA-512/256 in FIPS 180-4, section 5.3.6.2
Fips_sha512_256_vector ==
    << Hex(<< 34, 49, 33, 148, 252, 43, 247, 44 >>),
       Hex(<< 159, 85, 95, 163, 200, 76, 100, 194 >>),
       Hex(<< 35, 147, 184, 107, 111, 83, 177, 81 >>),
       Hex(<< 150, 56, 119, 25, 89, 64, 234, 189 >>),
       Hex(<< 150, 40, 62, 226, 168, 142, 255, 227 >>),
       Hex(<< 190, 94, 30, 37, 83, 134, 57, 146 >>),
       Hex(<< 43, 1, 153, 252, 44, 133, 184, 170 >>),
       Hex(<< 14, 183, 45, 220, 129, 197, 44, 162 >>) >>

\* C17: the initialization vectors that sha512_t derives by hashing "SHA-512/t" are the
\* initial hash values of FIPS 180-4, section 5.3.6, word for word, for t = 224 and
\* t = 256: every such call starts from them.
C17_Sha512tVectors ==
    (pc = "hashing" /\ call.function = "sha512_t" /\ block_index = 0) =>
        /\ call.hash_bits = 224 => state = Fips_sha512_224_vector
        /\ call.hash_bits = 256 => state = Fips_sha512_256_vector

\* the initial hash value of SHA-1
Sha1Vector ==
    << Hex(<< 103, 69, 35, 1 >>), Hex(<< 239, 205, 171, 137 >>), Hex(<< 152, 186, 220, 254 >>),
       Hex(<< 16, 50, 84, 118 >>), Hex(<< 195, 210, 225, 240 >>) >>

\* the literals of sha1_initialization_vector
Sha1Literals ==
    << Hex(<< 1, 35, 69, 103 >>), Hex(<< 137, 171, 205, 239 >>), Hex(<< 254, 220, 186, 152 >>),
       Hex(<< 118, 84, 50, 16 >>), Hex(<< 240, 225, 210, 195 >>) >>

\* the words at hand in a state: those of the state of the hash and of the two tables
\* of SHA-1 and SHA-512 initial values (32 and 64 bits wide)
SampleWords ==
    {state[i] : i \in 1..Len(state)}
      \cup {Sha1Literals[i] : i \in 1..5}
      \cup {tables.sha512_initialization_vector[i] : i \in 1..8}

\* C18: the initialization vector of SHA-1 is 0x67452301, 0xEFCDAB89, 0x98BADCFE,
\* 0x10325476, 0xC3D2E1F0, each word being byte_swap of 0x01234567, 0x89abcdef, 0xfedcba98,
\* 0x76543210, 0xf0e1d2c3; byte_swap reverses the order of the bytes of a word and is its
\* own inverse.
C18_Sha1Vector ==
    /\ tables.sha1_initialization_vector = Sha1Vector
    /\ (pc = "hashing" /\ call.function = "sha1" /\ block_index = 0) => state = Sha1Vector
    /\ \A i \in 1..5 : byte_swap(Sha1Literals[i]) = Sha1Vector[i]
    /\ \A word \in SampleWords :
          /\ Len(byte_swap(word)) = Len(word)
          /\ \A j \in 1..Len(word) : byte_swap(word)[j] = word[Len(word) + 1 - j]
          /\ byte_swap(byte_swap(word)) = word

\* sha1 starts from the vector, whose first word is not the literal it was written as
C18_Witness ==
    /\ pc = "hashing"
    /\ call.function = "sha1"
    /\ block_index = 0
    /\ state[1] = Hex(<< 103, 69, 35, 1 >>)
    /\ state[1] # Sha1Literals[1]
    /\ byte_swap(state[1]) = Sha1Literals[1]

\* the four constants of SHA-1, one for each twenty rounds
Sha1Constants ==
    << Hex(<< 90, 130, 121, 153 >>), Hex(<< 110, 217, 235, 161 >>),
       Hex(<< 143, 27, 188, 220 >>), Hex(<< 202, 98, 193, 214 >>) >>

\* triples of words the round functions are compared on: words of the running state and
\* of the initial hash value
SampleTriples ==
    { << Sha1Vector[2], Sha1Vector[3], Sha1Vector[4] >>,
      << Sha1Vector[5], Sha1Vector[1], Sha1Vector[3] >> }
      \cup (IF Len(state) = 5 THEN { << state[2], state[3], state[4] >> } ELSE {})

\* C19: round t of SHA-1, t in 0..79, takes its function and its constant by t div 20:
\* choose and 0x5a827999 for t < 20, parity and 0x6ed9eba1 for 20 <= t < 40, majority and
\* 0x8f1bbcdc for 40 <= t < 60, parity and 0xca62c1d6 for 60 <= t < 80; every t in 0..79
\* selects one of the four entries.
C19_Sha1Selection ==
    /\ DOMAIN tables.sha1_constants = 0..79
    /\ \A t \in 0..79 :
          /\ (t \div 20) + 1 \in DOMAIN Sha1Constants
          /\ tables.sha1_constants[t] = Sha1Constants[(t \div 20) + 1]
          /\ \A s \in SampleTriples :
                sha1_functions(t, s[1], s[2], s[3])
                  = CASE t < 20 -> choose(s[1], s[2], s[3])
                      [] 20 <= t /\ t < 40 -> parity(s[1], s[2], s[3])
                      [] 40 <= t /\ t < 60 -> majority(s[1], s[2], s[3])
                      [] 60 <= t /\ t < 80 -> parity(s[1], s[2], s[3])

\* sha1 has run the eighty rounds of a block; on the words e, a, c of the initial hash
\* value the three functions give three different words
C19_Witness ==
    /\ pc = "hashing"
    /\ call.function = "sha1"
    /\ block_index = 1
    /\ choose(Sha1Vector[5], Sha1Vector[1], Sha1Vector[3])
         # parity(Sha1Vector[5], Sha1Vector[1], Sha1Vector[3])
    /\ majority(Sha1Vector[5], Sha1Vector[1], Sha1Vector[3])
         # parity(Sha1Vector[5], Sha1Vector[1], Sha1Vector[3])
    /\ choose(Sha1Vector[5], Sha1Vector[1], Sha1Vector[3])
         # majority(Sha1Vector[5], Sha1Vector[1], Sha1Vector[3])

\* the working variables after the last round of a block, started from the state before it
WorkingCopy(function, before, block) ==
    IF function = "sha1"
    THEN sha1_rounds(tables,
                     sha1_schedule(native, block, [t \in 0..79 |-> ZeroWord(32)], 0, 80),
                     before, 0, 80)
    ELSE sha2_rounds(constants_of(function),
                     sha2_schedule(native, block,
                                   [t \in DOMAIN constants_of(function) |->
                                        ZeroWord(Width(before[1]))],
                                   0, Cardinality(DOMAIN constants_of(function))),
                     before, 0, Cardinality(DOMAIN constants_of(function)))

\* every word of after is the sum of the words of before and of v, modulo 2^W
IsSumOf(after, before, v) ==
    /\ Force(v)
    /\ Len(after) = Len(before)
    /\ Len(v) = Len(before)
    /\ \A i \in 1..Len(before) :
          after[i] = NatToWord(N_Add(WordNat(before[i], 1), WordNat(v[i], 1)), Width(before[i]))

\* C20: while a message of k blocks is hashed the blocks are compressed in the order
\* 0, 1, ..., k - 1; the state is written once for each block, after its last round (k times
\* until the return), and the write sets every word to the sum modulo 2^W of the state
\* before the block and the working copy after the last round, the working copy having
\* started as the state before the block.
C20_BlockOrder ==
    [][ /\ (pc # "hashing" /\ pc' = "hashing") => block_index' = 0
        /\ (pc = "hashing" /\ pc' = "hashing") =>
              /\ block_index < Len(blocks)
              /\ block_index' = block_index + 1
              /\ blocks' = blocks
              /\ call' = call
              /\ IsSumOf(state', state, WorkingCopy(call.function, state, blocks[block_index + 1]))
        /\ (pc = "hashing" /\ pc' # "hashing") =>
              /\ pc' = "returned"
              /\ block_index = Len(blocks)
              /\ state' = state
        /\ pc # "hashing" => (state' = state \/ pc' = "hashing" \/ state' = << >>) ]_vars

\* both blocks of a message of two blocks have been compressed, the second one last
C20_Witness ==
    /\ pc = "hashing"
    /\ Len(blocks) = 2
    /\ block_index = 2
    /\ blocks[1] # blocks[2]
    /\ state # tables.sha1_initialization_vector

\* the initialization vector a function hands to detail::sha1 or detail::sha2
VectorOf(function, hash_bits) ==
    CASE function = "sha1"   -> tables.sha1_initialization_vector
      [] function = "sha224" -> tables.sha224_initialization_vector
      [] function = "sha256" -> tables.sha256_initialization_vector
      [] function = "sha384" -> tables.sha384_initialization_vector
      [] function = "sha512" -> tables.sha512_initialization_vector
      [] function = "sha512_t" -> sha512_t_initialization_vector(native, tables, hash_bits)

\* C21: whatever calls were made before, no step changes a table of round constants or
\* an initialization vector, and every call starts its state from the initialization
\* vector of its function, at block 0: nothing that an earlier call left is read.
C21_Frame ==
    [][ /\ tables' = tables
        /\ (pc # "hashing" /\ pc' = "hashing") =>
              /\ state' = VectorOf(call'.function, call'.hash_bits)
              /\ block_index' = 0
              /\ digest' = << >> ]_vars

\* a call of sha256 starts from its vector after a different call has returned
C21_Witness ==
    /\ pc = "hashing"
    /\ block_index = 0
    /\ call.function = "sha256"
    /\ remembered # << >>
    /\ remembered[3]
    /\ remembered[1].function # "sha256"
    /\ state = tables.sha256_initialization_vector

\* the sum of byte j of the words i, i + 1, ... of a sequence
RECURSIVE ColumnSum(_, _, _)
ColumnSum(words, j, i) ==
    IF i > Len(words) THEN 0 ELSE words[i][j] + ColumnSum(words, j, i + 1)

\* the sum of the words modulo 2^W, byte after byte from the least significant one, with
\* the carry of the bytes below j; acc holds the bytes below j
RECURSIVE SumFrom(_, _, _, _)
SumFrom(words, j, carry, acc) ==
    CASE Len(acc) + 1 # j \/ j > Len(words[1]) -> acc
      [] OTHER -> SumFrom(words, j + 1, (ColumnSum(words, j, 1) + carry) \div 256,
                          Append(acc, (ColumnSum(words, j, 1) + carry) % 256))

\* the sum of the words modulo 2^W
SumOf(words) == SumFrom(words, 1, 0, << >>)

\* the message schedule of the block the loop takes next
NextSchedule ==
    IF call.function = "sha1"
    THEN sha1_schedule(native, blocks[block_index + 1], [t \in 0..79 |-> ZeroWord(32)], 0, 80)
    ELSE sha2_schedule(native, blocks[block_index + 1],
                       [t \in DOMAIN constants_of(call.function) |-> ZeroWord(Width(state[1]))],
                       0, Cardinality(DOMAIN constants_of(call.function)))

\* what round t of SHA-1 makes of v if all five words are read before any is written:
\* (T, a, ROTL30(b), c, d)
Sha1Simultaneous(w, v, t) ==
    << SumOf(<< rotate_left(5, v[1]), sha1_functions(t, v[2], v[3], v[4]), v[5],
                tables.sha1_constants[t], w[t] >>),
       v[1], rotate_left(30, v[2]), v[3], v[4] >>

\* after, the outcome of a round, if it is what the round makes of v at once; << >> if not
Sha1Checked(w, v, after, t) == IF after = Sha1Simultaneous(w, v, t) THEN after ELSE << >>

\* the working words after the rounds from, ..., to - 1 that start from v, if each of these
\* rounds updated the words at once; << >> if one did not
RECURSIVE Sha1RoundsChecked(_, _, _, _)
Sha1RoundsChecked(w, v, from, to) ==
    CASE Force(w) /\ Force(v) /\ (v = << >> \/ to <= from) -> v
      [] to = from + 1 -> Sha1Checked(w, v, sha1_round(tables, w, v, from), from)
      [] OTHER -> Sha1RoundsChecked(w, Sha1RoundsChecked(w, v, from, (from + to) \div 2),
                                    (from + to) \div 2, to)

\* C22: every round of SHA-1 updates the five working words at once from their values
\* before the round: with T = (rotate_left(5, a) + f(b, c, d) + e + k[t] + w[t]) mod 2^32
\* the words after the round are T, a, rotate_left(30, b), c, d; the assignments in place
\* never read a word the same round has already written.
C22_Sha1Round ==
    (pc = "hashing" /\ call.function = "sha1" /\ block_index < Len(blocks)) =>
        Sha1RoundsChecked(NextSchedule, state, 0, 80) # << >>

\* sha1 is about to run the eighty rounds of the second block of a message, from five
\* different words
C22_Witness ==
    /\ pc = "hashing"
    /\ call.function = "sha1"
    /\ block_index = 1
    /\ Len(blocks) = 2
    /\ Cardinality({state[i] : i \in 1..5}) = 5

\* what round t of SHA-2 makes of v if all eight words are read before any is written:
\* (t1 + t2, a, b, c, d + t1, e, f, g)
Sha2Simultaneous(constants, w, v, t) ==
    << SumOf(<< v[8], Sigma1(v[5]), choose(v[5], v[6], v[7]), constants[t], w[t],
                Sigma0(v[1]), majority(v[1], v[2], v[3]) >>),
       v[1], v[2], v[3],
       SumOf(<< v[4], v[8], Sigma1(v[5]), choose(v[5], v[6], v[7]), constants[t], w[t] >>),
       v[5], v[6], v[7] >>

\* after, the outcome of a round, if it is what the round makes of v at once; << >> if not
Sha2Checked(constants, w, v, after, t) ==
    IF after = Sha2Simultaneous(constants, w, v, t) THEN after ELSE << >>

\* the working words after the rounds from, ..., to - 1 that start from v, if each of these
\* rounds updated the words at once; << >> if one did not
RECURSIVE Sha2RoundsChecked(_, _, _, _, _)
Sha2RoundsChecked(constants, w, v, from, to) ==
    CASE Force(w) /\ Force(v) /\ (v = << >> \/ to <= from) -> v
      [] to = from + 1 -> Sha2Checked(constants, w, v, sha2_round(constants, w, v, from), from)
      [] OTHER -> Sha2RoundsChecked(constants, w,
                                    Sha2RoundsChecked(constants, w, v, from, (from + to) \div 2),
                                    (from + to) \div 2, to)

\* C23: every round of SHA-2 computes t1 = (h + Sigma1(e) + Choose(e, f, g) + k[t] + w[t])
\* and t2 = (Sigma0(a) + Majority(a, b, c)) modulo 2^W from the values before the round,
\* and the words after the round are t1 + t2, a, b, c, d + t1, e, f, g modulo 2^W; the
\* assignments in place never read a word the same round has already written.
C23_Sha2Round ==
    (pc = "hashing" /\ call.function # "sha1" /\ block_index < Len(blocks)) =>
        Sha2RoundsChecked(constants_of(call.function), NextSchedule, state, 0,
                          Cardinality(DOMAIN constants_of(call.function))) # << >>

\* sha512 is about to run the eighty rounds of the second block of a message, from
\* eight different words
C23_Witness ==
    /\ pc = "hashing"
    /\ call.function = "sha512"
    /\ block_index = 1
    /\ Len(blocks) = 2
    /\ Cardinality({state[i] : i \in 1..8}) = 8

\* the word of sizeof bytes that starts at byte offset of the padded message, read as a
\* big-endian number
BigEndianAt(offset, sizeof) == Hex(SubSeq(padded, offset + 1, offset + sizeof))

\* w is a message schedule of SHA-1 for the block at byte offset of the padded message
IsSha1Schedule(w, offset) ==
    /\ Force(w)
    /\ DOMAIN w = 0..79
    /\ \A t \in 0..15 : w[t] = BigEndianAt(offset + t * 4, 4)
    /\ \A t \in 16..79 :
          /\ {t - 3, t - 8, t - 14, t - 16} \subseteq 0..(t - 1)
          /\ w[t] = rotate_left(1, XorW(XorW(XorW(w[t - 3], w[t - 8]), w[t - 14]), w[t - 16]))

\* C24: for every block the message schedule of SHA-1 has exactly 80 words; words 0..15
\* are the 16 words of the block, each the big-endian value of its 4 message bytes, and
\* w[t] = rotate_left(1, w[t-3] xor w[t-8] xor w[t-14] xor w[t-16]) for every t in 16..79,
\* all of them words written before.
C24_Sha1Schedule ==
    (pc = "hashing" /\ call.function = "sha1" /\ block_index < Len(blocks)) =>
        IsSha1Schedule(NextSchedule, block_index * 64)

\* w is a message schedule of SHA-2 for the block, as long as the table of constants, and
\* round t from v uses constants[t] and w[t]
IsSha2Schedule(w, block, constants, v) ==
    /\ Force(w)
    /\ DOMAIN w = DOMAIN constants
    /\ \A t \in 0..15 : w[t] \in {block[t + 1], byte_swap(block[t + 1])}
    /\ \A t \in DOMAIN constants :
          /\ t >= 16 => w[t] = SumOf(<< sigma1(w[t - 2]), w[t - 7], sigma0(w[t - 15]), w[t - 16] >>)
          /\ sha2_round(constants, w, v, t)[5]
               = SumOf(<< v[4], v[8], Sigma1(v[5]), choose(v[5], v[6], v[7]), constants[t], w[t] >>)

\* the number of constants of the table given to detail::sha2
NumConstants == Cardinality(DOMAIN constants_of(call.function))

\* C25: in detail::sha2 the message schedule has as many words, and a block as many rounds,
\* as the table of constants given: 64 for sha224 and sha256, 80 for sha384, sha512 and
\* sha512_t; words 0..15 come from the block, w[t] = (sigma1(w[t-2]) + w[t-7] +
\* sigma0(w[t-15]) + w[t-16]) mod 2^W for t >= 16, and round t uses constants[t] and w[t].
C25_Sha2Schedule ==
    (pc = "hashing" /\ call.function # "sha1" /\ block_index < Len(blocks)) =>
        /\ NumConstants = (IF call.function \in {"sha224", "sha256"} THEN 64 ELSE 80)
        /\ Width(state[1]) = (IF call.function \in {"sha224", "sha256"} THEN 32 ELSE 64)
        /\ DOMAIN constants_of(call.function) = 0..(NumConstants - 1)
        /\ IsSha2Schedule(NextSchedule, blocks[block_index + 1], constants_of(call.function),
                          state)

\* sha384 is about to expand the second block of a message into 80 words, and sha256 would
\* expand its blocks into 64
C25_Witness ==
    /\ pc = "hashing"
    /\ call.function = "sha384"
    /\ block_index = 1
    /\ Len(blocks) = 2
    /\ NumConstants = 80
    /\ Cardinality(DOMAIN tables.sha2_32_bit_constants) = 64

\* the number that a sequence of decimal digit bytes stands for, read from byte i on
\* after the digits that gave so_far
RECURSIVE Decimal(_, _, _)
Decimal(bs, i, so_far) ==
    IF i > Len(bs) THEN so_far ELSE Decimal(bs, i + 1, 10 * so_far + (bs[i] - 48))

\* C26: for every t in 1..511 other than 384 the message the bootstrap hashes is the 8
\* bytes "SHA-512/" and then t in decimal without a leading zero: 1 digit for t < 10, 2 for
\* 10 <= t < 100, 3 for t >= 100, every digit a byte '0'..'9'; the message has 9, 10 or 11
\* bytes and its digits read as a decimal number give t.
C26_DerivationMessage ==
    (evaluated.function = "sha512_t_message" /\ evaluated.argument \in 1..511
       /\ evaluated.argument # 384) =>
        /\ SubSeq(evaluated.result, 1, 8) = << 83, 72, 65, 45, 53, 49, 50, 47 >>
        /\ Len(evaluated.result) = (IF evaluated.argument < 10 THEN 9
                                    ELSE IF evaluated.argument < 100 THEN 10 ELSE 11)
        /\ \A i \in 9..Len(evaluated.result) : evaluated.result[i] \in 48..57
        /\ evaluated.result[9] # 48
        /\ Decimal(evaluated.result, 9, 0) = evaluated.argument

\* the message for t = 8 has been built: "SHA-512/8", one digit
C26_Witness ==
    /\ evaluated.function = "sha512_t_message"
    /\ evaluated.argument = 8
    /\ evaluated.result = << 83, 72, 65, 45, 53, 49, 50, 47, 56 >>

\* 2^k as a natural number
PowerOfTwo(k) == N_ShiftLeft(<< 1 >>, k)

\* 2^61 as a natural number: 2 * LimbBase^4
TwoTo61 == << 0, 0, 0, 0, 2 >>

\* 2^61 - (9 * W) \div 4, the least n with 8 * n + 18 * W >= 2^64, for W in {32, 64}
WrapLimit(W) == << LimbBase - (9 * W) \div 4, LimbBase - 1, LimbBase - 1, LimbBase - 1, 1 >>

\* a < b for natural numbers without leading zero limbs, limb by limb
IsBelow(a, b) ==
    \/ Len(a) < Len(b)
    \/ /\ Len(a) = Len(b)
       /\ \E i \in 1..Len(a) : /\ a[i] < b[i]
                               /\ \A j \in (i + 1)..Len(a) : a[j] = b[j]

\* bit i of 8 * n: bit i - 3 of n
BitOfBitCount(n, i) == IF i < 3 THEN 0 ELSE N_Bit(n, i - 3)

\* byte j, of weight 2^(8 * j), of 8 * n
ByteOfBitCount(n, j) ==
      BitOfBitCount(n, 8 * j)          + 2 * BitOfBitCount(n, 8 * j + 1)
    + 4 * BitOfBitCount(n, 8 * j + 2)  + 8 * BitOfBitCount(n, 8 * j + 3)
    + 16 * BitOfBitCount(n, 8 * j + 4) + 32 * BitOfBitCount(n, 8 * j + 5)
    + 64 * BitOfBitCount(n, 8 * j + 6) + 128 * BitOfBitCount(n, 8 * j + 7)

\* (8 * n) mod 2^64 as eight bytes, most significant byte first
SizeField(n) ==
    << ByteOfBitCount(n, 7), ByteOfBitCount(n, 6), ByteOfBitCount(n, 5), ByteOfBitCount(n, 4),
       ByteOfBitCount(n, 3), ByteOfBitCount(n, 2), ByteOfBitCount(n, 1), ByteOfBitCount(n, 0) >>

\* C28, as stated: the length field that preprocess_message writes is (8 * n) mod 2^64
\* for a message of n bytes, and for a message of 2^61 bytes or more the count of bits
\* wraps and the message is preprocessed without an error.
C28_SilentWrap ==
    evaluated.function = "preprocess_message" =>
        /\ evaluated.result.size = SizeField(evaluated.argument.original_bytes)
        /\ ~IsBelow(evaluated.argument.original_bytes, TwoTo61) =>
              evaluated.result.outcome = "preprocessed"

\* the message of n bytes, word_t of W bits, is preprocessed without an error exactly if
\* 8 * n + 18 * W < 2^64 (neither min_bits nor the rounding up to whole blocks wraps);
\* 8 * n is then less than 2^64, so that the length field is 8 * n, and the buffer is
\* longer than the message
PreprocessedIffNoWrap(W, n, result) ==
    /\ result.outcome \in {"preprocessed", "not a constant expression"}
    /\ result.outcome = "preprocessed" <=> IsBelow(n, WrapLimit(W))
    /\ result.outcome = "preprocessed" =>
          /\ IsBelow(n, TwoTo61)
          /\ IsBelow(n, result.message_size)

\* for a small message the buffer has the size of the one that padded_message fills:
\* blocks_of(W, n) blocks of block_words words
AsPaddedMessage(W, n, result) ==
    /\ result.outcome = "preprocessed"
    /\ result.message_size = << blocks_of(W, n) * block_words * (W \div bits_per_byte) >>

\* C28: the length field that preprocess_message writes is (8 * n) mod 2^64 for a message
\* of n bytes, which is 8 * n for every message it preprocesses; for a message of 2^61
\* bytes or more the count of bits wraps, and so does min_bits: the buffer is sized from
\* the wrapped value, it is shorter than the message, the copy of the message leaves it
\* and the call is not a constant expression: no blocks are returned and nothing is hashed.
C28_WrapRejected ==
    evaluated.function = "preprocess_message" =>
        /\ evaluated.result.size = SizeField(evaluated.argument.original_bytes)
        /\ PreprocessedIffNoWrap(evaluated.argument.word_bits, evaluated.argument.original_bytes,
                                 evaluated.result)
        /\ ~IsBelow(evaluated.argument.original_bytes, TwoTo61) =>
              /\ ~IsBelow(evaluated.argument.original_bytes, evaluated.result.message_size)
              /\ evaluated.result.outcome = "not a constant expression"
        /\ Len(evaluated.argument.original_bytes) = 1 =>
              AsPaddedMessage(evaluated.argument.word_bits, evaluated.argument.original_bytes[1],
                              evaluated.result)

\* a message of 2^61 + 1 bytes has been given to preprocess_message<std::uint32_t>: its
\* count of bits wraps to 8, the buffer has 64 bytes and the call is rejected
C28_Witness ==
    /\ evaluated.function = "preprocess_message"
    /\ evaluated.argument.word_bits = 32
    /\ evaluated.argument.original_bytes = << 1, 0, 0, 0, 2 >>
    /\ evaluated.result.size = << 0, 0, 0, 0, 0, 0, 0, 8 >>
    /\ evaluated.result.message_size = << 64 >>
    /\ evaluated.result.outcome = "not a constant expression"

\* the state in which the hash of the derivation message of sha512_t<hash_bits> ends
BootstrapState(hash_bits) ==
    sha2_blocks(native, tables.sha2_64_bit_constants, intermediate_iv(tables),
                preprocess_message(64, sha512_t_message(hash_bits)), 1)

\* vector is the whole of final, the state the derivation hash ended in: the 64 bytes of
\* final, most significant byte of each word first, put together again give its words
IsWholeState(vector, final) ==
    /\ Force(final)
    /\ Len(final) = 8
    /\ Len(to_bytes("big", final)) = 64
    /\ iv_of_hash_result(native, to_bytes("big", final)) = final
    /\ vector = final

\* C27: the bootstrap of SHA-512/t hashes the derivation message from the intermediate
\* vector, word i of which is word i of the SHA-512 vector xor 0xa5a5a5a5a5a5a5a5, with the
\* 80 64-bit round constants, and the initialization vector is the whole final state of
\* that hash, not truncated: its 64 big-endian bytes put together again give each word of
\* the state unchanged.
C27_Bootstrap ==
    (pc = "hashing" /\ call.function = "sha512_t" /\ block_index = 0) =>
        /\ \A i \in 1..8 : \A j \in 1..8 :
              intermediate_iv(tables)[i][j] = XorByte(tables.sha512_initialization_vector[i][j], 165)
        /\ DOMAIN tables.sha2_64_bit_constants = 0..79
        /\ IsWholeState(state, BootstrapState(call.hash_bits))

\* the words of vector are the big-endian values of the bytes of hash_result, 8 for each
IsBigEndianOf(vector, hash_result) ==
    /\ Len(vector) * 8 = Len(hash_result)
    /\ \A i \in 1..Len(vector) : vector[i] = Hex(SubSeq(hash_result, 8 * (i - 1) + 1, 8 * i))

\* words 0..15 of the schedule w are the big-endian values of the bytes of the padded
\* message from byte offset on, sizeof for each
IsBigEndianSchedule(w, offset, sizeof) ==
    Force(w) /\ \A t \in 0..15 : w[t] = BigEndianAt(offset + t * sizeof, sizeof)

\* the digest of the call of a SHA-2 function on a host of the given byte order
DigestOn(host) ==
    detail_sha2(call.hash_bits, host, call.message,
                IF call.function = "sha512_t"
                THEN sha512_t_initialization_vector(host, tables, call.hash_bits)
                ELSE VectorOf(call.function, call.hash_bits),
                constants_of(call.function))

\* C29: the digest does not depend on the byte order of the host: on a little-endian and
\* on a big-endian host alike, word t < 16 of the schedule of every block is the
\* big-endian number that the W/8 bytes at offset t * W/8 of the block in the padded
\* message form, and the words of the bootstrap vector of SHA-512/t are the big-endian
\* values of the 8 bytes each of the digest of the derivation message.
C29_ByteOrder ==
    /\ (pc = "hashing" /\ block_index < Len(blocks)) =>
          IsBigEndianSchedule(NextSchedule, block_index * 16 * Len(state[1]), Len(state[1]))
    /\ (pc = "hashing" /\ call.function = "sha512_t" /\ block_index = 0) =>
          IsBigEndianOf(state, to_bytes("big", BootstrapState(call.hash_bits)))
    /\ (pc = "returned" /\ call.function # "sha1") =>
          (digest = DigestOn("little") /\ digest = DigestOn("big"))

\* C30: for every i in 0..7 word i of the initialization vector of SHA-224 is word i of
\* the initialization vector of SHA-384, the 64-bit constant of the square root of
\* prime(i + 8), modulo 2^32; 0xc1059ed8 = 0xcbbb9d5dc1059ed8 mod 2^32.
C30_LowHalf ==
    /\ Len(tables.sha224_initialization_vector) = 8
    /\ Len(tables.sha384_initialization_vector) = 8
    /\ \A i \in 0..7 :
          /\ IsRootBits(tables.sha384_initialization_vector[i + 1], prime(i + 8, 2), 2)
          /\ WordNat(tables.sha224_initialization_vector[i + 1], 1)
               = N_DivMod(WordNat(tables.sha384_initialization_vector[i + 1], 1),
                          PowerOfTwo(32)).r
    /\ tables.sha224_initialization_vector[1] = Hex(<< 193, 5, 158, 216 >>)
    /\ tables.sha384_initialization_vector[1] = Hex(<< 203, 187, 157, 93, 193, 5, 158, 216 >>)

\* sha384 starts from its vector, whose first word has the first word of the vector of
\* SHA-224 as its low half and other bits above
C30_Witness ==
    /\ pc = "hashing"
    /\ call.function = "sha384"
    /\ block_index = 0
    /\ state = tables.sha384_initialization_vector
    /\ SubSeq(state[1], 1, 4) = tables.sha224_initialization_vector[1]
    /\ SubSeq(state[1], 5, 8) # tables.sha224_initialization_vector[1]

=============================================================================
